---- MODULE Spec2Model ----
(***************************************************************************)
(* The pre-push auto-fix loop of scripts/setup_plugin_pipeline.py          *)
(* (PRE_PUSH_HOOK): main, run_linting, the eight lint_* adapters,          *)
(* commit_auto_fixes and run_validation_cycle.                             *)
(*                                                                         *)
(* External tools, git and the file system are the environment: every      *)
(* invocation draws its outcome from the outcomes the code distinguishes   *)
(* (exit 0, nonzero exit, TimeoutExpired, FileNotFoundError).              *)
(***************************************************************************)
EXTENDS Integers, Sequences, FiniteSets, TLC

\* ------------------------------------------------------------------ bounds
\* At most this many source-file categories are present in the repository.
MaxLangs == 2
\* At most this many plugin entries in marketplace.json.
MaxPlugins == 2
\* At most this many shell scripts handed to lint_shell.
MaxShellFiles == 2
\* PipelineSetup: validate() calls, fix() calls, submodules of a marketplace.
MaxValidateCalls == 2
MaxFixCalls == 2
MaxSubmodules == 1
MaxOnPath == 3
MaxFiles == 2
MaxStaged == 2

\* ------------------------------------------------------- program constants
MAX_FIX_ITERATIONS == 5

\* detect_languages inserts the categories in this order.
LangOrder ==
  <<"python", "javascript", "shell", "go", "rust", "markdown", "json", "yaml">>

Categories == {LangOrder[i] : i \in 1..Len(LangOrder)}

\* Outcomes of one subprocess.run call.
OK       == "ok"         \* returncode 0
FAIL     == "fail"       \* returncode nonzero
TIMEOUT  == "timeout"    \* subprocess.TimeoutExpired
NOTFOUND == "notfound"   \* FileNotFoundError

Ran      == {OK, FAIL, TIMEOUT}
RanOrNot == {OK, FAIL, TIMEOUT, NOTFOUND}

VARIABLES
  pc,             \* position in main
  validator,      \* find_validator() found a script
  languages,      \* categories detect_languages finds
  dirty,          \* tracked files modified in the working tree, not staged
  staged,         \* the index differs from HEAD
  iteration,      \* main's loop counter
  langPos,        \* run_linting: index in LangOrder of the last category handled
  all_passed,     \* run_linting local
  files_changed,  \* run_linting local
  reported,       \* this iteration: the <<passed, changed>> pairs adapters returned
  skipped,        \* this iteration: some ensure_linter_installed returned False
  toolTrace,      \* the tool calls of the lint_python or lint_go call in
                  \* progress or just returned, each with the outcome the
                  \* adapter read, and last what it returned
  pyChanged,      \* lint_python's local files_changed
  mypy,           \* lint_python: shutil.which("mypy") finds the type checker
  commits,        \* number of commits created by commit_auto_fixes
  lastCommit,     \* iteration number in the message of the commit created in
                  \* this iteration, 0 if none
  onlyTF,         \* every adapter report so far was (True, False)
  validatorCalls, \* invocations of the external validator
  issues,         \* run_validation_cycle's result
  validation,     \* what run_validation_cycle found: the manifest and, per
                  \* plugin entry, what happened at its path
  outcome,        \* how main ended
  exitCode,       \* main's exit status, -1 while running
  \* ---- setup_plugin_pipeline.py's PipelineSetup and the project it works on
  project,        \* the project tree: manifests, .git, hooks directory, config files
  dry_run,        \* PipelineSetup.dry_run
  status,         \* PipelineSetup.status, a PipelineStatus
  fixed,          \* what the last fix() returned, -1 before the first call
  callsMade,      \* the validate() and fix() calls made so far, by kind
  sinceReset,     \* validate() calls on the current status object
  applied,        \* a fix() that was not a dry run and met no OSError has
                  \* run on a recognised project
  ioFailed,       \* some file operation of fix() raised OSError
  fault,          \* the file operation that raised OSError in the last fix()
  escaped,        \* the last fix() ended by raising instead of returning
  \* ensure_linter_installed(language, repo_root)
  language,       \* its argument
  os_type,        \* platform.system().lower()
  onPath,         \* the executables shutil.which finds
  package_json,   \* repo_root/package.json exists
  local_eslint,   \* repo_root/node_modules/.bin/eslint exists
  ensurePc,       \* "idle", "start", "installing" or "done"
  tool,           \* the tool whose installer chain is running
  stratPos,       \* index in the chain of the last strategy invoked
  invoked,        \* the installer commands run so far, with their outcomes
  printed,        \* the messages printed so far
  ensured,        \* what the call returned: "true", "false", or "raised"
  \* the validator/fixer command line
  args,           \* the parsed flags
  path_exists,    \* project_path.exists()
  cliPc,          \* position in main
  cliExit,        \* what main returned, -1 before
  \* detect_languages(repo_root)
  repo_root,      \* the parts of the repository root's absolute path
  files,          \* the files below it: directory parts and extension
  detected,       \* the categories returned
  \* PipelineSetup._get_hooks_dir
  project_path,   \* the parts of the project's absolute path
  dot_git,        \* what <project>/.git is and, if a file, what it holds
  validateDir,    \* hooks_dir of _validate_hooks, <<>> before the call
  fixDir,         \* hooks_dir of _fix_hooks, <<>> before the call
  \* the installed pre-commit hook
  indicators,     \* the in-progress markers that exist in the git directory
  git_dir_query,  \* outcome of git rev-parse --git-dir
  name_only,      \* outcome of git diff --cached --name-only
  staged_files,   \* the files it lists: suffix and what open/json.load meets
  ruff_run,       \* outcome of ruff check on the staged Python files
  diff_run,       \* outcome of git diff --cached -U0
  sensitive,      \* the staged diff holds a line check_sensitive_data flags
  prePc,          \* position in the hook's main
  preFailed,      \* main's local failed
  preChecks,      \* the checks run so far
  preRaised,      \* an exception left main
  preExit         \* the hook's exit status, -1 while running

hookVars == <<pc, validator, languages, dirty, staged, iteration, langPos,
              all_passed, files_changed, reported, skipped, toolTrace, pyChanged,
              mypy, commits, lastCommit, onlyTF, validatorCalls, issues,
              validation, outcome, exitCode>>

setupVars == <<project, dry_run, status, fixed, callsMade, sinceReset, applied,
               ioFailed, fault, escaped>>

installVars == <<language, os_type, onPath, package_json, local_eslint, ensurePc,
                 tool, stratPos, invoked, printed, ensured>>

cliVars == <<args, path_exists, cliPc, cliExit>>

detectVars == <<repo_root, files, detected>>

hooksDirVars == <<project_path, dot_git, validateDir, fixDir>>

preCommitVars == <<indicators, git_dir_query, name_only, staged_files, ruff_run,
                   diff_run, sensitive, prePc, preFailed, preChecks, preRaised,
                   preExit>>

\* What the pre-push hook, and what PipelineSetup, leave alone.
hookRest == <<setupVars, installVars, cliVars, detectVars, hooksDirVars,
              preCommitVars>>
setupRest == <<hookVars, installVars, cliVars, detectVars, hooksDirVars,
               preCommitVars>>

vars == <<hookVars, setupVars, installVars, cliVars, detectVars, hooksDirVars,
          preCommitVars>>

\* ------------------------------------------------------------ repository
\* has_uncommitted_changes: git status --porcelain, lines not starting "??".
\* st is the outcome of the git status call; a nonzero exit, TimeoutExpired
\* and OSError all return False, and FAIL stands for the three.
StatusOutcome == {OK, FAIL}

\* Mutant: only modifications that are not staged are listed.
StatusOfWorkingTreeOnly(d, s, st) == st = OK /\ d

has_uncommitted_changes(d, s, st) ==
  IF st = OK THEN d \/ s ELSE FALSE

\* ------------------------------------------------------------ run_linting
Index(lang) == CHOOSE i \in 1..Len(LangOrder) : LangOrder[i] = lang

\* Index of the first detected category after position k, 0 if there is none
\* (the for loop over languages.items()).
NextIdx(k) ==
  LET later == {i \in (k + 1)..Len(LangOrder) : LangOrder[i] \in languages}
  IN  IF later = {} THEN 0 ELSE CHOOSE i \in later : \A j \in later : i <= j

\* Mutant: all_passed is overwritten by the last adapter's flag.
AggregatePassedLast(all, passed) == passed

\* Mutant: one passing adapter is enough.
AggregatePassedAny(all, passed) == all \/ passed

\* if not passed: all_passed = False
AggregatePassed(all, passed) == all /\ passed

\* Mutant: files_changed is overwritten by the last adapter's flag.
AggregateChangedLast(fc, changed) == changed

\* if changed: files_changed = True
AggregateChanged(fc, changed) == fc \/ changed

\* The bookkeeping of one pass of run_linting's loop body for category lang.
\* ran is FALSE when ensure_linter_installed returned False (continue).
FinishLang(lang, ran, passed, changed) ==
  /\ langPos' = Index(lang)
  /\ all_passed' = IF ran THEN AggregatePassed(all_passed, passed) ELSE all_passed
  /\ files_changed' =
       IF ran THEN AggregateChanged(files_changed, changed) ELSE files_changed
  /\ reported' = IF ran THEN reported \cup {<<passed, changed>>} ELSE reported
  /\ skipped' = (skipped \/ ~ran)
  /\ onlyTF' = (onlyTF /\ (ran => (passed /\ ~changed)))
  /\ pc' = IF NextIdx(Index(lang)) = 0 THEN "decide" ELSE "lint"

\* The category run_linting handles next.
Turn(lang) ==
  /\ pc = "lint"
  /\ NextIdx(langPos) # 0
  /\ LangOrder[NextIdx(langPos)] = lang

\* ensure_linter_installed(language): have = the category's tool is found
\* (shutil.which / local path), inst = its installer chain succeeded.
\* go and rust have no installer; json needs no tool.
ensure_linter_installed(lang, have, inst) ==
  CASE lang = "json" -> TRUE
    [] lang \in {"go", "rust"} -> have
    [] OTHER -> have \/ inst

\* The part of the state run_linting's loop keeps.
lintVars == <<langPos, all_passed, files_changed, reported, skipped, onlyTF>>
mainVars == <<validator, languages, staged, iteration, commits, lastCommit,
              validatorCalls, issues, validation, outcome, exitCode, hookRest>>

\* ------------------------------------------------------------ lint_python
\* What an adapter reads of a call whose return code it does not look at
\* (ruff check --fix, ruff format, gofmt -w).
Unread(o) == IF o = FAIL THEN OK ELSE o

\* The last entry of toolTrace: the success flag the adapter returned.
Returned(passed) == <<"return", IF passed THEN "passed" ELSE "failed">>

\* Mutant: a timed-out verify counts as a failed one.
VerifyProceedsOnlyOnSuccess(o) == o = OK

\* Step 3 falls through to step 4 unless ruff check (verify) exits nonzero.
VerifyProceeds(o) == o # FAIL

\* Mutant: mypy is run whether or not it is found.
TypecheckRunsAlways(m) == TRUE

\* Step 2 runs mypy only if shutil.which("mypy") finds it.
TypecheckRuns(m) == m

\* Step 2 falls through to step 3 unless mypy exits nonzero.
TypecheckProceeds(o) == o # FAIL

\* The inputs a branch does not read are not enumerated: S when the branch
\* taken reads the input, one value of S otherwise.
When(c, S) == IF c THEN S ELSE {CHOOSE x \in S : TRUE}

\* ensure_linter_installed("python"), then step 1: ruff check --fix.
\* m: mypy is on PATH once ensure_linter_installed has tried to install it;
\* a failed installation of mypy does not change what it returns.
PyFix ==
  /\ Turn("python")
  /\ \E have \in BOOLEAN, inst \in BOOLEAN :
     LET ens == ensure_linter_installed("python", have, inst) IN
     \E o \in IF have THEN Ran ELSE When(ens, RanOrNot) :
     \E mod \in When(ens /\ o # NOTFOUND, BOOLEAN),
        st \in When(ens /\ o # NOTFOUND, StatusOutcome),
        m \in When(ens /\ o # NOTFOUND, BOOLEAN) :
       IF ~ens
         THEN /\ FinishLang("python", FALSE, FALSE, FALSE)
              /\ UNCHANGED <<dirty, toolTrace, pyChanged, mypy>>
       ELSE IF o = NOTFOUND
         THEN /\ toolTrace' = << <<"fix", o>>, Returned(FALSE) >>
              /\ FinishLang("python", TRUE, FALSE, FALSE)
              /\ UNCHANGED <<dirty, pyChanged, mypy>>
       ELSE   /\ toolTrace' = << <<"fix", Unread(o)>> >>
              /\ dirty' = (dirty \/ mod)
              /\ pyChanged' = has_uncommitted_changes(dirty', staged, st)
              /\ mypy' = m
              /\ pc' = "py_typecheck"
              /\ UNCHANGED lintVars
  /\ UNCHANGED mainVars

\* Step 2: mypy, if shutil.which("mypy").
PyTypecheck ==
  /\ pc = "py_typecheck"
  /\ \E o \in When(TypecheckRuns(mypy), Ran) :
       IF ~TypecheckRuns(mypy)
         THEN /\ pc' = "py_verify"
              /\ UNCHANGED <<toolTrace, pyChanged, mypy, lintVars>>
       ELSE IF TypecheckProceeds(o)
         THEN /\ toolTrace' = Append(toolTrace, <<"typecheck", o>>)
              /\ pc' = "py_verify"
              /\ UNCHANGED <<pyChanged, mypy, lintVars>>
       ELSE   /\ toolTrace' = toolTrace \o << <<"typecheck", o>>, Returned(FALSE) >>
              /\ FinishLang("python", TRUE, FALSE, pyChanged)
              /\ pyChanged' = FALSE
              /\ mypy' = FALSE
  /\ UNCHANGED <<dirty, mainVars>>

\* Step 3: ruff check without --fix.
PyVerify ==
  /\ pc = "py_verify"
  /\ \E o \in Ran :
       IF VerifyProceeds(o)
         THEN /\ toolTrace' = Append(toolTrace, <<"verify", o>>)
              /\ pc' = "py_format"
              /\ UNCHANGED <<pyChanged, mypy, lintVars>>
       ELSE   /\ toolTrace' = toolTrace \o << <<"verify", o>>, Returned(FALSE) >>
              /\ FinishLang("python", TRUE, FALSE, pyChanged)
              /\ pyChanged' = FALSE
              /\ mypy' = FALSE
  /\ UNCHANGED <<dirty, mainVars>>

\* Step 4: ruff format, then the second has_uncommitted_changes.
PyFormat ==
  /\ pc = "py_format"
  /\ \E o \in Ran, mod \in BOOLEAN, st \in StatusOutcome :
       /\ toolTrace' = toolTrace \o << <<"format", Unread(o)>>, Returned(TRUE) >>
       /\ dirty' = (dirty \/ mod)
       /\ FinishLang("python", TRUE, TRUE,
                     pyChanged \/ has_uncommitted_changes(dirty', staged, st))
       /\ pyChanged' = FALSE
       /\ mypy' = FALSE
  /\ UNCHANGED mainVars

\* ------------------------------------------------- the other seven adapters
Result(p, c, d) == [passed |-> p, changed |-> c, dirty |-> d]

\* The final no-fix check of lint_javascript, lint_go, lint_rust and
\* lint_markdown: returncode == 0, but True on TimeoutExpired and
\* FileNotFoundError.
FinalCheck(o) == o # FAIL

\* runner: bun, npx, a local or a global eslint was found; cfg: an eslint
\* config file exists.
lint_javascript(d, s, runner, cfg, fix, mod, st, ver) ==
  IF ~runner \/ ~cfg \/ fix = NOTFOUND
    THEN Result(TRUE, FALSE, d)
  ELSE LET d1 == d \/ mod
       IN  Result(FinalCheck(ver), has_uncommitted_changes(d1, s, st), d1)

\* outs[i] is the outcome of shellcheck on the i-th file.
lint_shell(d, outs) ==
  IF \E i \in 1..Len(outs) : outs[i] = NOTFOUND
    THEN Result(TRUE, FALSE, d)
  ELSE Result(\A i \in 1..Len(outs) : outs[i] # FAIL, FALSE, d)

lint_go(d, s, fmt, mod, st, vet) ==
  IF fmt = NOTFOUND
    THEN Result(FALSE, FALSE, d)
  ELSE LET d1 == d \/ mod
       IN  Result(FinalCheck(vet), has_uncommitted_changes(d1, s, st), d1)

\* The tool calls lint_go makes, and what it returned.
GoTrace(fmt, vet, passed) ==
  IF fmt = NOTFOUND THEN << <<"gofmt", fmt>>, Returned(passed) >>
  ELSE << <<"gofmt", Unread(fmt)>>, <<"go vet", vet>>, Returned(passed) >>

\* toml: Cargo.toml exists. The exit status of cargo clippy --fix is not read.
lint_rust(d, s, toml, fmt, mod1, st1, mod2, st2, ver) ==
  IF ~toml THEN Result(TRUE, FALSE, d)
  ELSE IF fmt = NOTFOUND THEN Result(FALSE, FALSE, d)
  ELSE LET d1 == d \/ mod1
           d2 == d1 \/ mod2
           ch == \/ has_uncommitted_changes(d1, s, st1)
                 \/ has_uncommitted_changes(d2, s, st2)
       IN  Result(FinalCheck(ver), ch, d2)

lint_markdown(d, s, runner, fix, mod, st, ver) ==
  IF ~runner \/ fix = NOTFOUND
    THEN Result(TRUE, FALSE, d)
  ELSE LET d1 == d \/ mod
       IN  Result(FinalCheck(ver), has_uncommitted_changes(d1, s, st), d1)

\* invalid: some file fails json.load; prettier: a formatter runner was found.
lint_json(d, s, invalid, prettier, fmt, mod, st) ==
  IF ~prettier THEN Result(~invalid, FALSE, d)
  ELSE LET d1 == d \/ (fmt # NOTFOUND /\ mod)
       IN  Result(~invalid, has_uncommitted_changes(d1, s, st), d1)

\* o = FAIL: yamllint exits nonzero and prints an [error] line;
\* o = "warn": it exits nonzero with warnings only.
YamlOutcome == {OK, FAIL, "warn", TIMEOUT, NOTFOUND}

lint_yaml(d, avail, o) ==
  IF ~avail THEN Result(TRUE, FALSE, d)
  ELSE Result(o # FAIL, FALSE, d)

ShellRuns == UNION {[1..n -> RanOrNot] : n \in 1..MaxShellFiles}

\* One pass of run_linting's loop body: ens is the result of
\* ensure_linter_installed, r the adapter's result.
RunAdapter(lang, ens, r, tr) ==
  /\ IF ~ens
       THEN /\ FinishLang(lang, FALSE, FALSE, FALSE)
            /\ toolTrace' = <<>>
            /\ UNCHANGED dirty
       ELSE /\ FinishLang(lang, TRUE, r.passed, r.changed)
            /\ toolTrace' = tr
            /\ dirty' = r.dirty
  /\ UNCHANGED <<pyChanged, mypy, mainVars>>

LintJavascript ==
  /\ Turn("javascript")
  /\ \E have \in BOOLEAN, inst \in BOOLEAN :
     LET ens == ensure_linter_installed("javascript", have, inst) IN
     \E runner \in IF have THEN {TRUE} ELSE When(ens, BOOLEAN) :
     \E cfg \in When(ens /\ runner, BOOLEAN) :
     \E fix \in When(ens /\ runner /\ cfg, RanOrNot) :
     \E mod \in When(ens /\ runner /\ cfg /\ fix # NOTFOUND, BOOLEAN),
        st \in When(ens /\ runner /\ cfg /\ fix # NOTFOUND, StatusOutcome),
        ver \in When(ens /\ runner /\ cfg /\ fix # NOTFOUND, RanOrNot) :
       RunAdapter("javascript", ens,
                  lint_javascript(dirty, staged, runner, cfg, fix, mod, st, ver), <<>>)

LintShell ==
  /\ Turn("shell")
  /\ \E have \in BOOLEAN, inst \in BOOLEAN :
     LET ens == ensure_linter_installed("shell", have, inst) IN
     \E outs \in When(ens, ShellRuns) :
       /\ have => \A i \in 1..Len(outs) : outs[i] # NOTFOUND
       /\ RunAdapter("shell", ens, lint_shell(dirty, outs), <<>>)

\* ensure_linter_installed found gofmt, so gofmt itself is found when run.
LintGo ==
  /\ Turn("go")
  /\ \E have \in BOOLEAN :
     LET ens == ensure_linter_installed("go", have, FALSE) IN
     \E fmt \in When(ens, Ran), mod \in When(ens, BOOLEAN),
        st \in When(ens, StatusOutcome), vet \in When(ens, RanOrNot) :
       RunAdapter("go", ens, lint_go(dirty, staged, fmt, mod, st, vet),
                  GoTrace(fmt, vet, lint_go(dirty, staged, fmt, mod, st, vet).passed))

\* ensure_linter_installed found cargo, so cargo itself is found when run.
LintRust ==
  /\ Turn("rust")
  /\ \E have \in BOOLEAN :
     LET ens == ensure_linter_installed("rust", have, FALSE) IN
     \E toml \in When(ens, BOOLEAN) :
     \E fmt \in When(ens /\ toml, Ran), mod1 \in When(ens /\ toml, BOOLEAN),
        st1 \in When(ens /\ toml, StatusOutcome), mod2 \in When(ens /\ toml, BOOLEAN),
        st2 \in When(ens /\ toml, StatusOutcome), ver \in When(ens /\ toml, Ran) :
       RunAdapter("rust", ens,
                  lint_rust(dirty, staged, toml, fmt, mod1, st1, mod2, st2, ver), <<>>)

LintMarkdown ==
  /\ Turn("markdown")
  /\ \E have \in BOOLEAN, inst \in BOOLEAN :
     LET ens == ensure_linter_installed("markdown", have, inst) IN
     \E runner \in IF have THEN {TRUE} ELSE When(ens, BOOLEAN) :
     \E fix \in When(ens /\ runner, RanOrNot) :
     \E mod \in When(ens /\ runner /\ fix # NOTFOUND, BOOLEAN),
        st \in When(ens /\ runner /\ fix # NOTFOUND, StatusOutcome),
        ver \in When(ens /\ runner /\ fix # NOTFOUND, RanOrNot) :
       RunAdapter("markdown", ens,
                  lint_markdown(dirty, staged, runner, fix, mod, st, ver), <<>>)

LintJson ==
  /\ Turn("json")
  /\ \E invalid \in BOOLEAN, prettier \in BOOLEAN :
     \E fmt \in When(prettier, RanOrNot), mod \in When(prettier, BOOLEAN),
        st \in When(prettier, StatusOutcome) :
       RunAdapter("json", ensure_linter_installed("json", prettier, FALSE),
                  lint_json(dirty, staged, invalid, prettier, fmt, mod, st), <<>>)

LintYaml ==
  /\ Turn("yaml")
  /\ \E have \in BOOLEAN, inst \in BOOLEAN :
     LET ens == ensure_linter_installed("yaml", have, inst) IN
     \E avail \in IF have THEN {TRUE} ELSE When(ens, BOOLEAN) :
     \E o \in When(ens /\ avail, YamlOutcome) :
       /\ have => o # NOTFOUND
       /\ RunAdapter("yaml", ens, lint_yaml(dirty, avail, o), <<>>)

\* run_linting with no category detected: return True, False.
LintNothing ==
  /\ pc = "lint"
  /\ languages = {}
  /\ pc' = "decide"
  /\ UNCHANGED <<lintVars, dirty, toolTrace, pyChanged, mypy, mainVars>>

\* ------------------------------------------------------ commit_auto_fixes
\* add, diff, commit: outcomes of git add -u, git diff --cached --quiet and
\* git commit --no-verify (none of the three calls is inside a try).
\* diff = OK: the command ran and exits 1 iff something is staged;
\* diff = FAIL: it exits with a git error (nonzero).
\* partial: a git command that timed out had already done its work.
\* stageable: git add -u stages what git status lists as modified (it does
\* not for modified content inside a submodule).
\* result: "true"/"false" as returned, "raise" for an uncaught TimeoutExpired.
\* Mutant: the staged diff is not consulted and git commit accepts an empty
\* index.
CommitsEmptyIndex(d, s, add, diff, commit, partial, stageable) ==
  LET s1 == s \/ (d /\ stageable)
      d1 == d /\ ~stageable
      out(res, dd, ss, made) ==
        [result |-> res, dirty |-> dd, staged |-> ss, committed |-> made]
  IN  IF add = TIMEOUT THEN out("raise", d, s, FALSE)
      ELSE IF add = FAIL THEN out("false", d, s, FALSE)
      ELSE IF commit = TIMEOUT THEN out("raise", d1, s1, FALSE)
      ELSE IF commit = FAIL THEN out("false", d1, s1, FALSE)
      ELSE out("true", d1, FALSE, TRUE)

\* commit_msg
CommitMessage(i) ==
  "chore: Auto-fix lint/format issues (iteration " \o ToString(i) \o ")"

\* The argument vectors of the three git calls.
StageCommand == <<"git", "add", "-u">>
CommitCommand(i) == <<"git", "commit", "-m", CommitMessage(i), "--no-verify">>

commit_auto_fixes(d, s, add, diff, commit, partial, stageable) ==
  LET s1 == s \/ (d /\ stageable)
      d1 == d /\ ~stageable
      out(res, dd, ss, made) ==
        [result |-> res, dirty |-> dd, staged |-> ss, committed |-> made]
  IN  IF add = TIMEOUT
        THEN IF partial THEN out("raise", d1, s1, FALSE)
                        ELSE out("raise", d, s, FALSE)
      ELSE IF add = FAIL THEN out("false", d, s, FALSE)
      ELSE IF diff = TIMEOUT THEN out("raise", d1, s1, FALSE)
      ELSE IF diff = OK /\ ~s1 THEN out("true", d1, s1, FALSE)
      ELSE IF commit = TIMEOUT
        THEN IF partial /\ s1 THEN out("raise", d1, FALSE, TRUE)
                              ELSE out("raise", d1, s1, FALSE)
      ELSE IF commit = FAIL \/ ~s1 THEN out("false", d1, s1, FALSE)
      ELSE out("true", d1, FALSE, TRUE)

\* --------------------------------------------------- run_validation_cycle
PluginStatus == {"missing", OK, FAIL, TIMEOUT}
\* The plugins list of marketplace.json: the i-th entry is named PluginName(i);
\* es[i] tells what happens at its path ("missing": plugin_path does not
\* exist; else the outcome of validate_plugin).
PluginName(i) == ToString(i)
PluginEntries == UNION {[1..n -> PluginStatus] : n \in 0..MaxPlugins}

\* Mutant: the validator is invoked on a path that does not exist.
PathExistsAlways(st) == TRUE

\* if plugin_path.exists()
PathExists(st) == st # "missing"

RECURSIVE ValidateEntries(_, _, _, _)
ValidateEntries(es, i, iss, calls) ==
  IF i > Len(es) THEN [raised |-> FALSE, issues |-> iss, calls |-> calls]
  ELSE IF ~PathExists(es[i]) THEN ValidateEntries(es, i + 1, iss, calls)
  ELSE IF es[i] = TIMEOUT
    THEN [raised |-> TRUE, issues |-> iss, calls |-> calls + 1]
  ELSE ValidateEntries(es, i + 1,
                       IF es[i] = FAIL THEN Append(iss, PluginName(i)) ELSE iss,
                       calls + 1)

\* manifest: which of .claude-plugin/marketplace.json ("marketplace", or
\* "malformed" when json.load or data.get raises) and plugin.json exist.
Manifests == {"marketplace", "malformed", "plugin", "none"}

run_validation_cycle(manifest, es, single) ==
  CASE manifest = "marketplace" -> ValidateEntries(es, 1, <<>>, 0)
    [] manifest = "malformed" -> [raised |-> TRUE, issues |-> <<>>, calls |-> 0]
    [] manifest = "plugin" ->
         [raised |-> single = TIMEOUT,
          issues |-> IF single = FAIL THEN <<"plugin">> ELSE <<>>,
          calls |-> 1]
    [] OTHER -> [raised |-> FALSE, issues |-> <<>>, calls |-> 0]

\* --------------------------------------------------------------------- main
\* Mutant: the bound is tested with <=.
LoopConditionOffByOne(i) == i <= MAX_FIX_ITERATIONS

\* Mutant: the loop is not bounded.
LoopConditionUnbounded(i) == TRUE

\* while iteration < MAX_FIX_ITERATIONS
LoopCondition(i) == i < MAX_FIX_ITERATIONS

\* Mutant: the commit step is taken whether or not files changed.
TakesCommitAlways(lint_passed, changed) == TRUE

\* if files_changed: commit and continue.
TakesCommit(lint_passed, changed) == changed

\* Mutant: the lint verdict is tested before the change flag.
BlocksPushFirst(lint_passed, changed) == ~lint_passed

\* if not lint_passed: return 1, reached when files_changed is false.
BlocksPush(lint_passed, changed) == ~changed /\ ~lint_passed

\* Otherwise step 4 runs.
RunsValidation(lint_passed, changed) == ~changed /\ lint_passed

End(o, code) ==
  /\ pc' = "done"
  /\ outcome' = o
  /\ exitCode' = code

runVars == <<langPos, all_passed, files_changed, reported, skipped, pyChanged,
             mypy, onlyTF>>

\* find_validator; "Validator not found, skipping validation".
Start ==
  /\ pc = "start"
  /\ IF validator
       THEN pc' = "loop_head" /\ UNCHANGED <<outcome, exitCode>>
       ELSE End("NoValidator", 0)
  /\ UNCHANGED <<validator, languages, dirty, staged, iteration, commits,
                 lastCommit, validatorCalls, issues, validation, toolTrace,
                 runVars, hookRest>>

\* The while test, iteration += 1 and the entry of run_linting.
LoopHead ==
  /\ pc = "loop_head"
  /\ IF LoopCondition(iteration)
       THEN /\ iteration' = iteration + 1
            /\ pc' = "lint"
            /\ langPos' = 0
            /\ all_passed' = TRUE
            /\ files_changed' = FALSE
            /\ reported' = {}
            /\ skipped' = FALSE
            /\ toolTrace' = <<>>
            /\ pyChanged' = FALSE
            /\ mypy' = FALSE
            /\ lastCommit' = 0
            /\ UNCHANGED <<outcome, exitCode>>
       ELSE /\ End("Exhausted", 1)
            /\ UNCHANGED <<iteration, langPos, all_passed, files_changed, reported,
                           skipped, toolTrace, pyChanged, mypy,
                           lastCommit>>
  /\ UNCHANGED <<validator, languages, dirty, staged, commits, validatorCalls,
                 issues, validation, onlyTF, hookRest>>

\* Step 2: if files_changed, commit the fixes and restart.
CommitStep ==
  /\ pc = "decide"
  /\ TakesCommit(all_passed, files_changed)
  /\ \E add \in Ran :
      \E diff \in When(add = OK, Ran) :
      \E commit \in When(add = OK /\ diff # TIMEOUT, Ran) :
      \E partial \in When(add = TIMEOUT \/ (add = OK /\ commit = TIMEOUT), BOOLEAN) :
      \E stageable \in When(add = OK \/ partial, BOOLEAN) :
       LET r == commit_auto_fixes(dirty, staged, add, diff, commit, partial, stageable)
       IN  /\ dirty' = r.dirty
           /\ staged' = r.staged
           /\ commits' = IF r.committed THEN commits + 1 ELSE commits
           /\ lastCommit' = IF r.committed THEN iteration ELSE lastCommit
           /\ CASE r.result = "true" -> pc' = "loop_head" /\ UNCHANGED <<outcome, exitCode>>
                [] r.result = "false" -> End("CommitFailed", 1)
                [] OTHER -> End("Crashed", 1)
  /\ toolTrace' = <<>>
  /\ UNCHANGED <<validator, languages, iteration, validatorCalls, issues,
                 validation, runVars, hookRest>>

\* Step 3: lint failed and nothing changed.
BlockedStep ==
  /\ pc = "decide"
  /\ BlocksPush(all_passed, files_changed)
  /\ End("BlockedUnfixableLint", 1)
  /\ UNCHANGED <<validator, languages, dirty, staged, iteration, commits,
                 lastCommit, validatorCalls, issues, validation, runVars,
                 hookRest>>
  /\ toolTrace' = <<>>

\* Steps 4 and 5: run_validation_cycle and its verdict.
ValidateStep ==
  /\ pc = "decide"
  /\ RunsValidation(all_passed, files_changed)
  /\ \E manifest \in Manifests :
      \E es \in IF manifest = "marketplace" THEN PluginEntries ELSE {<<>>},
         single \in IF manifest = "plugin" THEN Ran ELSE {OK} :
       LET r == run_validation_cycle(manifest, es, single)
       IN  /\ validatorCalls' = validatorCalls + r.calls
           /\ validation' = [manifest |-> manifest,
                              entries |-> IF manifest = "plugin" THEN <<single>> ELSE es]
           /\ issues' = r.issues
           /\ IF r.raised THEN End("Crashed", 1)
              ELSE IF r.issues = <<>> THEN End("Success", 0)
              ELSE End("BlockedStructural", 1)
  /\ toolTrace' = <<>>
  /\ UNCHANGED <<validator, languages, dirty, staged, iteration, commits,
                 lastCommit, runVars, hookRest>>

\* ============================================================ PipelineSetup
\* class ProjectType, class IssueLevel
MARKETPLACE == "marketplace"
PLUGIN == "plugin"
PLUGIN_IN_MARKETPLACE == "plugin_in_marketplace"
UNKNOWN == "unknown"
CRITICAL == "critical"
MAJOR == "major"
MINOR == "minor"
INFO == "info"

\* required_hooks of _validate_hooks and hooks of _fix_hooks, in dict order.
RequiredHooks == <<"pre-commit", "pre-push", "post-rewrite", "post-merge">>

\* _hook_is_valid: st_size < 100.
HookSizeFloor == 100

\* A file of the hooks directory: its executable bit and size, if it exists.
HookFile(exec, size) == [exists |-> TRUE, exec |-> exec, size |-> size]
MissingFile == [exists |-> FALSE, exec |-> FALSE, size |-> 0]

\* What _fix_hooks leaves after write_text(content) and chmod(+x): every
\* template is longer than the size floor, and its size stands for its
\* content: a hook of another size is not the template.
InstalledHook == HookFile(TRUE, HookSizeFloor + 1)

\* os.access(hook_path, os.X_OK)
Executable(f) == f.exec

\* Mutant: only a missing hook is reinstalled.
HookValidIfPresent(f) == f.exists

\* _hook_is_valid
_hook_is_valid(f) ==
  IF ~f.exists THEN FALSE
  ELSE IF ~Executable(f) THEN FALSE
  ELSE IF f.size < HookSizeFloor THEN FALSE
  ELSE TRUE

\* The markers _fix_config_files looks for in .gitignore.
GitignoreMarkers == {"__pycache__", ".mypy_cache", "docs_dev/"}

\* Those of the markers that occur in the text of GITIGNORE_ADDITIONS.
GITIGNORE_ADDITIONS == {"__pycache__", "docs_dev/"}

\* .gitignore, if it exists: the markers its text contains and the number of
\* copies of GITIGNORE_ADDITIONS written to it.
Gitignore(markers, copies) ==
  [exists |-> TRUE, markers |-> markers, copies |-> copies]
NoGitignore == [exists |-> FALSE, markers |-> {}, copies |-> 0]

\* PipelineIssue
PipelineIssue(level, component, message, fix_available) ==
  [level |-> level, component |-> component, message |-> message,
   fix_available |-> fix_available]

\* PipelineStatus(project_type=ProjectType.UNKNOWN, project_path=...)
FreshStatus ==
  [project_type |-> UNKNOWN, issues |-> <<>>, hooks_installed |-> <<>>,
   config_files |-> <<>>, submodules |-> <<>>]

\* Mutant: only Critical issues count.
IsValidCriticalOnly(st) ==
  ~\E i \in 1..Len(st.issues) : st.issues[i].level = CRITICAL

\* PipelineStatus.is_valid
is_valid(st) ==
  ~\E i \in 1..Len(st.issues) : st.issues[i].level \in {CRITICAL, MAJOR}

\* PipelineStatus.major_count
major_count(st) ==
  Cardinality({i \in 1..Len(st.issues) : st.issues[i].level = MAJOR})

\* Mutant: a directory with no manifest is taken for a plugin.
DetectPluginByDefault(p) ==
  IF p.manifest = "marketplace" THEN MARKETPLACE
  ELSE IF p.git = "file" THEN PLUGIN_IN_MARKETPLACE ELSE PLUGIN

\* detect_project_type: p.manifest is the manifest found under
\* .claude-plugin ("marketplace" when marketplace.json exists), p.git is
\* "none", "dir", or "file" for a .git file holding a gitdir: line.
detect_project_type(p) ==
  IF p.manifest = "marketplace" THEN MARKETPLACE
  ELSE IF p.manifest = "plugin"
    THEN IF p.git = "file" THEN PLUGIN_IN_MARKETPLACE ELSE PLUGIN
  ELSE UNKNOWN

\* _detect_submodules: the paths of .gitmodules that exist, named by position.
_detect_submodules(p) == [i \in 1..Len(p.submodules) |-> i]

\* The entries of a list that stand for an issue.
Raised(seq) == SelectSeq(seq, LAMBDA x : x.level # "none")
NoIssue == PipelineIssue("none", "", <<>>, FALSE)

\* Mutant: _validate_hooks reports nothing.
NoHookIssues(p) == <<>>

\* _validate_hooks: the issues it appends.
_validate_hooks(p) ==
  Raised(
    << IF p.post_commit
         THEN PipelineIssue(MAJOR, "hooks", <<"post-commit hook exists">>, TRUE)
         ELSE NoIssue >>
    \o [i \in 1..Len(RequiredHooks) |->
          LET f == p.hooks[RequiredHooks[i]]
          IN  IF ~f.exists
                THEN PipelineIssue(MAJOR, "hooks", <<"Missing hook", RequiredHooks[i]>>, TRUE)
              ELSE IF ~Executable(f)
                THEN PipelineIssue(MAJOR, "hooks",
                                   <<"hook is not executable", RequiredHooks[i]>>, TRUE)
              ELSE NoIssue])

\* self.status.hooks_installed[hook_name] = hook_path.exists()
hooks_installed(p) ==
  [h \in {RequiredHooks[i] : i \in 1..Len(RequiredHooks)} |-> p.hooks[h].exists]

\* has_validation_workflow: some *.yml under .github/workflows mentions
\* "validate" or "plugin". p.validate_yml is "missing", "match" or "nomatch";
\* p.other_workflow: another workflow file matches.
has_validation_workflow(p) == p.validate_yml = "match" \/ p.other_workflow

\* _validate_config_files: the issues it appends.
_validate_config_files(p) ==
  Raised(<<
    IF ~p.cliff
      THEN PipelineIssue(MINOR, "config", <<"Missing", "cliff.toml">>, TRUE)
      ELSE NoIssue,
    IF ~p.gitignore.exists
      THEN PipelineIssue(MINOR, "config", <<"Missing", ".gitignore">>, TRUE)
      ELSE NoIssue,
    IF ~has_validation_workflow(p)
      THEN PipelineIssue(MINOR, "ci", <<"No GitHub Actions validation workflow found">>, TRUE)
      ELSE NoIssue >>)

config_files(p) ==
  [f \in {"cliff.toml", ".gitignore", "github_workflow"} |->
     CASE f = "cliff.toml" -> p.cliff
       [] f = ".gitignore" -> p.gitignore.exists
       [] OTHER -> has_validation_workflow(p)]

\* A submodule's hooks directory .git/modules/<submodule>/hooks: whether it
\* exists, and which of post-commit, post-rewrite and post-merge it holds.
Submodule(dir, post_commit, rewrite, merge) ==
  [dir |-> dir, post_commit |-> post_commit, rewrite |-> rewrite, merge |-> merge]

\* _validate_submodule_hooks, from the k-th entry of status.submodules on.
RECURSIVE _validate_submodule_hooks(_, _, _)
_validate_submodule_hooks(p, names, k) ==
  IF k > Len(names) THEN <<>>
  ELSE LET sub == p.submodules[names[k]]
           here ==
             IF ~sub.dir
               THEN << PipelineIssue(MINOR, "submodules",
                                     <<"hooks directory not found", ToString(names[k])>>, FALSE) >>
             ELSE Raised(<<
               IF sub.post_commit
                 THEN PipelineIssue(MAJOR, "submodules",
                                    <<"has post-commit hook", ToString(names[k])>>, TRUE)
                 ELSE NoIssue,
               IF ~sub.rewrite
                 THEN PipelineIssue(MINOR, "submodules",
                                    <<"missing hook", ToString(names[k]), "post-rewrite">>, TRUE)
                 ELSE NoIssue,
               IF ~sub.merge
                 THEN PipelineIssue(MINOR, "submodules",
                                    <<"missing hook", ToString(names[k]), "post-merge">>, TRUE)
                 ELSE NoIssue >>)
       IN  here \o _validate_submodule_hooks(p, names, k + 1)

\* validate(): the status it leaves, starting from status st.
validate(p, st) ==
  LET t == detect_project_type(p)
      st1 == [st EXCEPT !.project_type = t,
                        !.submodules = IF t = MARKETPLACE
                                         THEN @ \o _detect_submodules(p) ELSE @]
  IN  IF t = UNKNOWN
        THEN [st1 EXCEPT !.issues =
                Append(@, PipelineIssue(CRITICAL, "project",
                                        <<"Not a valid plugin or marketplace">>, FALSE))]
      ELSE [st1 EXCEPT
              !.issues =
                @ \o (IF p.git = "none"
                        THEN << PipelineIssue(CRITICAL, "git",
                                              <<"Not a git repository">>, TRUE) >>
                        ELSE <<>>)
                  \o _validate_hooks(p)
                  \o _validate_config_files(p)
                  \o (IF t = MARKETPLACE
                        THEN _validate_submodule_hooks(p, st1.submodules, 1)
                        ELSE <<>>),
              !.hooks_installed = hooks_installed(p),
              !.config_files = config_files(p)]

\* Mutant: a missing hook is not installed.
NeedsInstallPresentOnly(p) ==
  {h \in DOMAIN p.hooks : p.hooks[h].exists /\ ~_hook_is_valid(p.hooks[h])}

\* Mutant: every required hook is written again.
NeedsInstallAll(p) == DOMAIN p.hooks

\* The hooks _fix_hooks installs or replaces.
NeedsInstall(p) ==
  {h \in DOMAIN p.hooks : ~p.hooks[h].exists \/ ~_hook_is_valid(p.hooks[h])}

\* The file operation of a fix() call that raises OSError, if any: mkdir of
\* the hooks directory, unlink of post-commit, write_text or chmod of the
\* hooks this call installs, write_text of cliff.toml, of a new .gitignore,
\* the append to an existing .gitignore, mkdir or write_text of validate.yml.
Faults ==
  {"none", "mkdir", "unlink", "hook", "cliff", "gitignore", "append", "workflow"}

\* _fix_hooks: mkdir of the hooks directory (also in a dry run), removal of
\* post-commit, installation of the hooks. mkdir and unlink are not inside a
\* try: their OSError leaves _fix_hooks (raised). An OSError of write_text
\* or chmod leaves the file as it was and appends a Critical issue. A dry
\* run counts post-commit only.
_fix_hooks(p, dry, f) ==
  LET todo == NeedsInstall(p)
      order == SelectSeq(RequiredHooks, LAMBDA h : h \in todo)
      oserror == f = "hook"
      p1 == [p EXCEPT !.git = IF @ = "none" THEN "dir" ELSE @]
  IN  IF f = "mkdir"
        THEN [project |-> p, fixed |-> 0, issues |-> <<>>, raised |-> TRUE]
      ELSE IF f = "unlink"
        THEN [project |-> p1, fixed |-> 0, issues |-> <<>>, raised |-> TRUE]
      ELSE
      [project |->
         [p1 EXCEPT !.post_commit = IF dry THEN @ ELSE FALSE,
                    !.hooks = [h \in DOMAIN @ |->
                                 IF h \in todo /\ ~dry /\ ~oserror
                                   THEN InstalledHook ELSE @[h]]],
       fixed |-> (IF p.post_commit THEN 1 ELSE 0)
                 + (IF dry \/ oserror THEN 0 ELSE Cardinality(todo)),
       issues |-> IF dry \/ ~oserror THEN <<>>
                  ELSE [i \in 1..Len(order) |->
                          PipelineIssue(CRITICAL, "hooks",
                                        <<"Permission denied installing hook", order[i]>>,
                                        FALSE)],
       raised |-> FALSE]

\* needs_update = not all(marker in content for marker in [...])
needs_update(g) == ~(GitignoreMarkers \subseteq g.markers)

\* _fix_config_files: cliff.toml, .gitignore, .github/workflows/validate.yml,
\* in this order. A dry run counts what it would write. Only the read of and
\* the append to an existing .gitignore are inside a try, which prints a
\* warning and counts nothing; the OSError of any other write leaves
\* _fix_config_files (raised) with the earlier items written.
_fix_config_files(p, dry, f) ==
  LET g == p.gitignore
      g1 == IF ~g.exists THEN Gitignore(GITIGNORE_ADDITIONS, 1)
            ELSE IF needs_update(g) /\ f # "append"
              THEN Gitignore(g.markers \cup GITIGNORE_ADDITIONS, g.copies + 1)
            ELSE g
      pc1 == [p EXCEPT !.cliff = TRUE]
      pc2 == [pc1 EXCEPT !.gitignore = g1]
  IN  IF f = "cliff" THEN [project |-> p, fixed |-> 0, raised |-> TRUE]
      ELSE IF f = "gitignore" THEN [project |-> pc1, fixed |-> 0, raised |-> TRUE]
      ELSE IF f = "workflow" THEN [project |-> pc2, fixed |-> 0, raised |-> TRUE]
      ELSE
      [project |->
         IF dry THEN p
         ELSE [pc2 EXCEPT !.validate_yml = IF @ = "missing" THEN "match" ELSE @],
       fixed |-> (IF ~p.cliff THEN 1 ELSE 0)
                 + (IF ~g.exists THEN 1
                    ELSE IF needs_update(g) /\ f # "append" THEN 1 ELSE 0)
                 + (IF p.validate_yml = "missing" THEN 1 ELSE 0),
       raised |-> FALSE]

\* _fix_submodule_hooks, from the k-th entry of status.submodules on; n is
\* its counter. A dry run counts nothing here.
RECURSIVE _fix_submodule_hooks(_, _, _, _, _)
_fix_submodule_hooks(subs, names, k, n, dry) ==
  IF k > Len(names) THEN [submodules |-> subs, fixed |-> n]
  ELSE LET sub == subs[names[k]]
       IN  IF ~sub.dir \/ dry
             THEN _fix_submodule_hooks(subs, names, k + 1, n, dry)
           ELSE _fix_submodule_hooks(
                  [subs EXCEPT ![names[k]] = Submodule(TRUE, FALSE, TRUE, TRUE)],
                  names, k + 1,
                  n + (IF sub.post_commit THEN 1 ELSE 0)
                    + (IF ~sub.rewrite THEN 1 ELSE 0)
                    + (IF ~sub.merge THEN 1 ELSE 0),
                  dry)

\* The faults a fix() call can meet: the operation it names is carried out.
FaultsFor(p, st, dry) ==
  {f \in Faults :
     \/ f = "none"
     \/ /\ st.project_type # UNKNOWN
        /\ \/ f = "mkdir" /\ p.git = "none"
           \/ /\ ~dry
              /\ \/ f = "unlink" /\ p.post_commit
                 \/ f = "hook" /\ NeedsInstall(p) # {}
                 \/ f = "cliff" /\ ~p.cliff
                 \/ f = "gitignore" /\ ~p.gitignore.exists
                 \/ f = "append" /\ p.gitignore.exists /\ needs_update(p.gitignore)
                 \/ f = "workflow" /\ p.validate_yml = "missing"}

\* fix(): the tree and the status it leaves, what it returns, and whether an
\* OSError left it instead (raised: nothing is returned).
fix(p, st, dry, f) ==
  IF st.project_type = UNKNOWN
    THEN [project |-> p, status |-> st, fixed |-> 1, raised |-> FALSE]
  ELSE LET h == _fix_hooks(p, dry, f)
           st1 == [st EXCEPT !.issues = @ \o h.issues]
           c == _fix_config_files(h.project, dry, f)
           m == IF st.project_type = MARKETPLACE
                  THEN _fix_submodule_hooks(c.project.submodules, st.submodules, 1, 0, dry)
                  ELSE [submodules |-> c.project.submodules, fixed |-> 0]
       IN  IF h.raised
             THEN [project |-> h.project, status |-> st, fixed |-> 0, raised |-> TRUE]
           ELSE IF c.raised
             THEN [project |-> c.project, status |-> st1, fixed |-> 0, raised |-> TRUE]
           ELSE [project |-> [c.project EXCEPT !.submodules = m.submodules],
                 status |-> st1,
                 fixed |-> h.fixed + c.fixed + m.fixed,
                 raised |-> FALSE]

\* setup.validate()
Validate ==
  /\ callsMade.validate < MaxValidateCalls
  /\ status' = validate(project, status)
  /\ callsMade' = [callsMade EXCEPT !.validate = @ + 1]
  /\ sinceReset' = sinceReset + 1
  /\ UNCHANGED <<project, dry_run, fixed, applied, ioFailed, fault, escaped, setupRest>>

\* setup.fix(); a call that raises returns nothing.
Fix ==
  /\ callsMade.fix < MaxFixCalls
  /\ \E f \in FaultsFor(project, status, dry_run) :
       LET r == fix(project, status, dry_run, f)
       IN  /\ project' = r.project
           /\ status' = r.status
           /\ fixed' = IF r.raised THEN fixed ELSE r.fixed
           /\ fault' = f
           /\ escaped' = r.raised
           /\ ioFailed' = (ioFailed \/ f # "none")
           /\ applied' = (applied \/ (/\ status.project_type # UNKNOWN
                                      /\ ~dry_run
                                      /\ f = "none"))
  /\ callsMade' = [callsMade EXCEPT !.fix = @ + 1]
  /\ UNCHANGED <<dry_run, sinceReset, setupRest>>

\* main: setup.status = PipelineStatus(project_type=ProjectType.UNKNOWN, ...)
ResetStatus ==
  /\ sinceReset > 0 \/ status.issues # <<>>
  /\ status' = FreshStatus
  /\ sinceReset' = 0
  /\ UNCHANGED <<project, dry_run, fixed, callsMade, applied, ioFailed, fault,
                 escaped, setupRest>>

\* The hook files a tree starts with: missing, not executable, an executable
\* stub below the size floor, or valid. _validate_hooks and _fix_hooks treat
\* the four hooks alike, so the trees are taken up to a permutation of them.
HookFiles ==
  {MissingFile, HookFile(FALSE, HookSizeFloor), HookFile(TRUE, HookSizeFloor - 1),
   HookFile(TRUE, HookSizeFloor)}

Rank(f) ==
  IF ~f.exists THEN 0
  ELSE IF ~f.exec THEN 1
  ELSE IF f.size < HookSizeFloor THEN 2
  ELSE 3

HookDirs ==
  {h \in [{RequiredHooks[i] : i \in 1..Len(RequiredHooks)} -> HookFiles] :
     \A i \in 1..(Len(RequiredHooks) - 1) :
       Rank(h[RequiredHooks[i]]) <= Rank(h[RequiredHooks[i + 1]])}

Submodules ==
  {Submodule(FALSE, FALSE, FALSE, FALSE), Submodule(TRUE, FALSE, FALSE, FALSE),
   Submodule(TRUE, TRUE, TRUE, TRUE), Submodule(TRUE, FALSE, TRUE, TRUE)}

Tree(manifest, git, hooks, post_commit, cliff, gitignore, yml, other, subs) ==
  [manifest |-> manifest, git |-> git, hooks |-> hooks,
   post_commit |-> post_commit, cliff |-> cliff, gitignore |-> gitignore,
   validate_yml |-> yml, other_workflow |-> other, submodules |-> subs]

NoHooks == [h \in {RequiredHooks[i] : i \in 1..Len(RequiredHooks)} |-> MissingFile]
AllHooks == [h \in {RequiredHooks[i] : i \in 1..Len(RequiredHooks)} |-> InstalledHook]

Gitignores == {NoGitignore, Gitignore({}, 0), Gitignore(GitignoreMarkers, 0)}

\* validate.yml and whether another workflow file matches.
Workflows ==
  {<<"missing", FALSE>>, <<"missing", TRUE>>, <<"match", FALSE>>, <<"nomatch", FALSE>>}

\* A project with no manifest: nothing else of it is read.
UnknownProjects ==
  {Tree("none", "dir", NoHooks, FALSE, FALSE, NoGitignore, "missing", FALSE, <<>>)}

\* Plugins: no repository, a repository, or a nested repository whose .git
\* is a file with a gitdir: line. Without .git there is no hooks directory.
PluginProjects ==
  {Tree("plugin", "none", NoHooks, FALSE, c, g, w[1], w[2], <<>>) :
     c \in BOOLEAN, g \in Gitignores, w \in Workflows}
  \cup
  {Tree("plugin", git, h, pcm, c, g, w[1], w[2], <<>>) :
     git \in {"dir", "file"}, h \in HookDirs, pcm \in BOOLEAN,
     c \in BOOLEAN, g \in Gitignores, w \in Workflows}

\* Marketplaces: their own hooks directory and config files go through the
\* code a plugin's go through, and are taken all missing or all in place.
MarketplaceProjects ==
  {Tree("marketplace", "dir", h, pcm,
        cfg, IF cfg THEN Gitignore(GitignoreMarkers, 0) ELSE NoGitignore,
        IF cfg THEN "match" ELSE "missing", FALSE, subs) :
     h \in {NoHooks, AllHooks}, pcm \in BOOLEAN, cfg \in BOOLEAN,
     subs \in UNION {[1..n -> Submodules] : n \in 0..MaxSubmodules}}

\* The project trees PipelineSetup is run on.
Projects == UnknownProjects \cup PluginProjects \cup MarketplaceProjects

\* No PipelineSetup has been constructed.
SetupIdle ==
  /\ project = "none"
  /\ dry_run = FALSE
  /\ status = FreshStatus
  /\ fixed = -1
  /\ callsMade = [validate |-> 0, fix |-> 0]
  /\ sinceReset = 0
  /\ applied = FALSE
  /\ ioFailed = FALSE
  /\ fault = "none"
  /\ escaped = FALSE

\* ------------------------------------------------ ensure_linter_installed
\* Outcomes of an installer command besides OK, FAIL and TIMEOUT: a nonzero
\* returncode with "already installed" in its output, and an OSError of
\* subprocess.run.
ALREADY == "already"
OSERROR == "oserror"

InstallOutcomes == {OK, ALREADY, FAIL, TIMEOUT, OSERROR}

\* install_python_tool: uv tool install, pipx install, pip3/pip install --user.
PythonChain == <<"uv", "pipx", "pip3", "pip">>

\* ensure_linter_installed("javascript"): for pkg_mgr in ["bun", "npm", "pnpm"].
EslintChain == <<"bun", "npm", "pnpm">>

\* ensure_linter_installed("shell"): pkg_managers by platform.
ShellcheckChain(os) ==
  CASE os = "darwin" -> <<"brew", "port">>
    [] os = "linux" -> <<"apt-get", "dnf", "yum", "pacman", "zypper", "apk", "brew">>
    [] os = "windows" -> <<"scoop", "choco", "winget">>
    [] OTHER -> <<>>

\* ensure_linter_installed("markdown"): bun add -g, npm install -g.
MarkdownlintChain == <<"bun", "npm">>

\* The installer chain of a tool.
Chain(t, os) ==
  CASE t \in {"ruff", "mypy", "yamllint"} -> PythonChain
    [] t = "eslint" -> EslintChain
    [] t = "shellcheck" -> ShellcheckChain(os)
    [] t = "markdownlint" -> MarkdownlintChain
    [] OTHER -> <<>>

\* Mutant: only returncode 0 ends a chain.
AcceptsSuccessOnly(strategy, o) == o = OK

\* What ends a chain with True: returncode 0 and, for uv and pipx only,
\* "already installed" in the output of a command that exited nonzero.
Accepts(strategy, o) ==
  o = OK \/ (o = ALREADY /\ strategy \in {"uv", "pipx"})

\* The chain's subprocess.run is inside try/except (TimeoutExpired, OSError):
\* all but the eslint chain.
Guarded(t) == t # "eslint"

\* install_hint = {...}.get(os_type, ...) of shell, go and rust.
install_hint(lang, os) ==
  CASE lang = "shell" ->
         (CASE os = "darwin" -> "brew install shellcheck"
            [] os = "linux" -> "apt install shellcheck  # or dnf/pacman/zypper"
            [] os = "windows" -> "scoop install shellcheck  # or choco/winget"
            [] OTHER -> "see https://github.com/koalaman/shellcheck#installing")
    [] lang = "go" ->
         (CASE os = "darwin" -> "brew install go  # or download from go.dev/dl"
            [] os = "linux" -> "apt install golang  # or dnf/pacman, or download from go.dev/dl"
            [] os = "windows" -> "scoop install go  # or choco install golang, or download from go.dev/dl"
            [] OTHER -> "https://go.dev/dl/")
    [] OTHER ->
         (CASE os \in {"darwin", "linux"} ->
                 "curl --proto '=https' --tlsv1.2 -sSf https://sh.rustup.rs | sh"
            [] os = "windows" -> "Download rustup-init.exe from https://rustup.rs/"
            [] OTHER -> "https://rustup.rs/")

\* What is printed when the chain of tool t has ended without success;
\* tried: some command of the chain left a last_error.
FailureMessages(t, os, tried) ==
  CASE t = "ruff" ->
         (IF tried THEN {"Install error: <last_error>"} ELSE {})
         \cup {"Could not install ruff"}
    [] t = "mypy" ->
         (IF tried THEN {"Install error: <last_error>"} ELSE {})
         \cup {"Could not install mypy, type checking will be skipped"}
    [] t = "yamllint" ->
         (IF tried THEN {"Install error: <last_error>"} ELSE {})
         \cup {"Could not install yamllint",
               "Install via: uv tool install --python 3.12 yamllint  OR  pipx install yamllint"}
    [] t = "eslint" -> {"eslint not available, skipping JS/TS linting"}
    [] t = "shellcheck" ->
         (IF tried THEN {"Last error: <last_error>"} ELSE {})
         \cup {"shellcheck not installed (install via: <install_hint>)",
               install_hint("shell", os)}
    [] OTHER ->
         {"markdownlint not available (install via: npm install -g markdownlint-cli)",
          "npm install -g markdownlint-cli"}

\* The next strategy of the chain that shutil.which finds, 0 if none.
NextStrategy(t, os, path, pos) ==
  LET c == Chain(t, os)
      S == {k \in (pos + 1)..Len(c) : c[k] \in path}
  IN  IF S = {} THEN 0 ELSE CHOOSE k \in S : \A j \in S : k <= j

Invocation(t, strategy, o) == [tool |-> t, strategy |-> strategy, outcome |-> o]

\* The call returns.
EnsureReturns(value, messages) ==
  /\ ensurePc' = "done"
  /\ ensured' = value
  /\ printed' = printed \cup messages
  /\ tool' = "none"
  /\ UNCHANGED <<stratPos, invoked>>

\* The chain of tool t begins.
EnsureInstalls(t) ==
  /\ ensurePc' = "installing"
  /\ tool' = t
  /\ stratPos' = 0
  /\ UNCHANGED <<ensured, printed, invoked>>

\* What follows install_python_tool("ruff") returning True, or ruff on PATH.
RuffAvailable ==
  IF "mypy" \in onPath THEN EnsureReturns("true", {}) ELSE EnsureInstalls("mypy")

\* ensure_linter_installed up to the first installer chain, or to its return
\* when no chain is run.
EnsureStart ==
  /\ ensurePc = "start"
  /\ CASE language = "python" ->
            (IF "ruff" \in onPath THEN RuffAvailable ELSE EnsureInstalls("ruff"))
       [] language = "javascript" ->
            (IF local_eslint \/ "eslint" \in onPath THEN EnsureReturns("true", {})
             ELSE IF package_json THEN EnsureInstalls("eslint")
             ELSE EnsureReturns("false", FailureMessages("eslint", os_type, FALSE)))
       [] language = "shell" ->
            (IF "shellcheck" \in onPath THEN EnsureReturns("true", {})
             ELSE EnsureInstalls("shellcheck"))
       [] language = "go" ->
            (IF "gofmt" \in onPath THEN EnsureReturns("true", {})
             ELSE EnsureReturns("false",
                    {"Go tools not installed (install via: <install_hint>)",
                     install_hint("go", os_type)}))
       [] language = "rust" ->
            (IF "cargo" \in onPath THEN EnsureReturns("true", {})
             ELSE EnsureReturns("false",
                    {"Rust/Cargo not installed (install via: <install_hint>)",
                     install_hint("rust", os_type)}))
       [] language = "markdown" ->
            (IF onPath \cap {"bun", "npx", "markdownlint"} # {}
               THEN EnsureReturns("true", {})
             ELSE EnsureInstalls("markdownlint"))
       [] language = "json" -> EnsureReturns("true", {})
       [] language = "yaml" ->
            (IF "yamllint" \in onPath THEN EnsureReturns("true", {})
             ELSE EnsureInstalls("yamllint"))
       [] OTHER -> EnsureReturns("false", {})
  /\ UNCHANGED <<language, os_type, onPath, package_json, local_eslint,
                 hookVars, setupVars, cliVars, detectVars,
                 hooksDirVars, preCommitVars>>

\* One installer command: the next strategy of the chain found on PATH.
TryStrategy ==
  /\ ensurePc = "installing"
  /\ NextStrategy(tool, os_type, onPath, stratPos) # 0
  /\ LET k == NextStrategy(tool, os_type, onPath, stratPos)
         strategy == Chain(tool, os_type)[k]
     IN  \E o \in InstallOutcomes :
           /\ invoked' = Append(invoked, Invocation(tool, strategy, o))
           /\ IF o \in {TIMEOUT, OSERROR} /\ ~Guarded(tool)
                THEN /\ ensurePc' = "done"
                     /\ ensured' = "raised"
                     /\ tool' = "none"
                     /\ stratPos' = k
                     /\ UNCHANGED printed
              ELSE IF Accepts(strategy, o)
                THEN IF tool = "ruff"
                       THEN IF "mypy" \in onPath
                              THEN /\ ensurePc' = "done"
                                   /\ ensured' = "true"
                                   /\ tool' = "none"
                                   /\ stratPos' = k
                                   /\ UNCHANGED printed
                            ELSE /\ tool' = "mypy"
                                 /\ stratPos' = 0
                                 /\ UNCHANGED <<ensurePc, ensured, printed>>
                     ELSE /\ ensurePc' = "done"
                          /\ ensured' = "true"
                          /\ tool' = "none"
                          /\ stratPos' = k
                          /\ UNCHANGED printed
              ELSE /\ stratPos' = k
                   /\ printed' = printed \cup
                        (IF o = TIMEOUT /\ tool \in {"shellcheck", "markdownlint"}
                           THEN {"install timed out"}
                         ELSE IF o = OSERROR /\ tool = "markdownlint"
                           THEN {"install failed"} ELSE {})
                   /\ UNCHANGED <<ensurePc, ensured, tool>>
  /\ UNCHANGED <<language, os_type, onPath, package_json, local_eslint,
                 hookVars, setupVars, cliVars, detectVars,
                 hooksDirVars, preCommitVars>>

\* No strategy is left: the chain has failed. A failed mypy chain does not
\* change what ensure_linter_installed("python") returns.
ChainEnd ==
  /\ ensurePc = "installing"
  /\ NextStrategy(tool, os_type, onPath, stratPos) = 0
  /\ LET tried == \E i \in 1..Len(invoked) : invoked[i].tool = tool
     IN  /\ ensurePc' = "done"
         /\ ensured' = IF tool = "mypy" THEN "true" ELSE "false"
         /\ printed' = printed \cup FailureMessages(tool, os_type, tried)
         /\ tool' = "none"
  /\ UNCHANGED <<stratPos, invoked, language, os_type, onPath, package_json,
                 local_eslint, hookVars, setupVars, cliVars, detectVars,
                 hooksDirVars, preCommitVars>>

\* --------------------------------------------------------------- main
\* The validator/fixer command line: --validate, --fix, --dry-run, --json,
\* and --type with its two choices ("auto" when it is not given).
Flags ==
  [validate : BOOLEAN, fix : BOOLEAN, dry_run : BOOLEAN, json : BOOLEAN,
   type : {"auto", "marketplace", "plugin"}]

\* Mutant: --json gives way to --fix.
PrintsJsonUnlessFix(a) == a.json /\ ~a.fix

\* if args.json
PrintsJson(a) == a.json

\* fixable_issues = [i for i in status.issues if i.fix_available]
fixable_issues(st) == SelectSeq(st.issues, LAMBDA i : i.fix_available)

\* if args.validate or args.fix: return 0 if status.is_valid else 1
ExitsByStatus(a) == a.validate \/ a.fix

\* return 0 if status.is_valid else 1
ExitFor(st) == IF is_valid(st) THEN 0 ELSE 1

\* main returns.
MainReturns(code) ==
  /\ cliPc' = "exited"
  /\ cliExit' = code

cliFrame == <<args, path_exists, dry_run, callsMade, sinceReset, applied, ioFailed,
              hookVars, installVars, detectVars, hooksDirVars, preCommitVars>>

\* main up to the first validate(): a path that does not exist returns 1.
MainValidate ==
  /\ cliPc = "start"
  /\ IF ~path_exists
       THEN /\ MainReturns(1)
            /\ UNCHANGED status
     ELSE /\ status' = validate(project, status)
          /\ cliPc' = "validated"
          /\ UNCHANGED cliExit
  /\ UNCHANGED <<project, fixed, fault, escaped, cliFrame>>

\* --json: print the status and return.
MainJson ==
  /\ cliPc = "validated"
  /\ PrintsJson(args)
  /\ MainReturns(ExitFor(status))
  /\ UNCHANGED <<project, status, fixed, fault, escaped, cliFrame>>

\* No --fix: nothing is done before the exit code is chosen.
MainNoFix ==
  /\ cliPc = "validated"
  /\ ~PrintsJson(args)
  /\ ~args.fix
  /\ cliPc' = "checked"
  /\ UNCHANGED <<project, status, fixed, fault, escaped, cliExit, cliFrame>>

\* --fix: fix() unless nothing is fixable and this is not a dry run, then,
\* unless this is a dry run, a validate() on a new PipelineStatus. An OSError
\* that leaves fix() leaves main: the interpreter exits with 1.
MainFix ==
  /\ cliPc = "validated"
  /\ ~PrintsJson(args)
  /\ args.fix
  /\ IF fixable_issues(status) = <<>> /\ ~args.dry_run
       THEN /\ cliPc' = "checked"
            /\ UNCHANGED <<project, status, fixed, fault, escaped, cliExit>>
     ELSE \E f \in FaultsFor(project, status, dry_run) :
            LET r == fix(project, status, dry_run, f)
            IN  /\ project' = r.project
                /\ fault' = f
                /\ escaped' = r.raised
                /\ fixed' = IF r.raised THEN fixed ELSE r.fixed
                /\ IF r.raised
                     THEN /\ status' = r.status
                          /\ MainReturns(1)
                   ELSE /\ status' = IF args.dry_run THEN r.status
                                     ELSE validate(r.project, FreshStatus)
                        /\ cliPc' = "checked"
                        /\ UNCHANGED cliExit
  /\ UNCHANGED cliFrame

\* --validate or --fix: the exit code follows status.is_valid.
MainExit ==
  /\ cliPc = "checked"
  /\ ExitsByStatus(args)
  /\ MainReturns(ExitFor(status))
  /\ UNCHANGED <<project, status, fixed, fault, escaped, cliFrame>>

\* Default mode: fix() if the status is not valid, then return 0.
MainDefault ==
  /\ cliPc = "checked"
  /\ ~ExitsByStatus(args)
  /\ IF is_valid(status)
       THEN /\ MainReturns(0)
            /\ UNCHANGED <<project, status, fixed, fault, escaped>>
     ELSE \E f \in FaultsFor(project, status, dry_run) :
            LET r == fix(project, status, dry_run, f)
            IN  /\ project' = r.project
                /\ status' = r.status
                /\ fault' = f
                /\ escaped' = r.raised
                /\ fixed' = IF r.raised THEN fixed ELSE r.fixed
                /\ MainReturns(IF r.raised THEN 1 ELSE 0)
  /\ UNCHANGED cliFrame

\* main is not running.
CliIdle ==
  /\ args = [validate |-> FALSE, fix |-> FALSE, dry_run |-> FALSE, json |-> FALSE,
             type |-> "auto"]
  /\ path_exists = TRUE
  /\ cliPc = "idle"
  /\ cliExit = -1

\* ------------------------------------------------------- detect_languages
\* exclude_dirs
exclude_dirs ==
  {".venv", "venv", "__pycache__", ".git", "node_modules", ".mypy_cache",
   ".ruff_cache", "build", "dist", ".tox"}

\* The suffixes of the glob patterns of a category.
Extensions(c) ==
  CASE c = "python" -> {"py"}
    [] c = "javascript" -> {"js", "ts", "jsx", "tsx"}
    [] c = "shell" -> {"sh", "bash"}
    [] c = "go" -> {"go"}
    [] c = "rust" -> {"rs"}
    [] c = "markdown" -> {"md", "mdx"}
    [] c = "json" -> {"json"}
    [] OTHER -> {"yml", "yaml"}

\* A file found by repo_root.glob: the directories between the repository
\* root and the file, and its suffix.
File(dirs, ext) == [dirs |-> dirs, ext |-> ext]

\* path.parts of repo_root / file: the parts of the root, then those of the
\* file below it. The file name ends in its suffix, so it is no member of
\* exclude_dirs and is left out.
Parts(root, f) == root \o f.dirs

\* should_include(path) = not any(part in exclude_dirs for part in path.parts)
should_include(root, f) ==
  ~\E i \in 1..Len(Parts(root, f)) : Parts(root, f)[i] \in exclude_dirs

\* detect_languages: the keys of the dictionary it returns.
detect_languages(root, fs) ==
  {c \in Categories : \E f \in fs : f.ext \in Extensions(c) /\ should_include(root, f)}

\* detect_languages(repo_root)
Detect ==
  /\ ~detected.done
  /\ repo_root # <<>>
  /\ detected' = [done |-> TRUE, languages |-> detect_languages(repo_root, files)]
  /\ UNCHANGED <<repo_root, files, hookVars, setupVars, installVars, cliVars,
                 hooksDirVars, preCommitVars>>

\* The absolute paths a repository root is given as (git rev-parse
\* --show-toplevel, or Path.cwd()), by their parts.
RootPaths ==
  {<<"/", "repo">>, <<"/", "home", "repo">>, <<"/", "home", "build", "repo">>,
   <<"/", "dist">>}

\* The directories files lie in, relative to the root.
DirPaths ==
  {<<>>, <<"src">>, <<"node_modules">>, <<"src", "build">>, <<".venv", "lib">>}

Suffixes == UNION {Extensions(c) : c \in Categories} \cup {"txt"}

\* The files a repository can hold.
Trees == {File(d, e) : d \in DirPaths, e \in Suffixes}

\* detect_languages is not running.
DetectIdle ==
  /\ repo_root = <<>>
  /\ files = {}
  /\ detected = [done |-> FALSE, languages |-> {}]

\* ---------------------------------------------------------- _get_hooks_dir
\* Path.is_absolute(), on the parts of a path.
IsAbsolute(path) == path # <<>> /\ path[1] = "/"

\* Path.resolve() on a path without symbolic links: a ".." part takes away
\* the part before it, the root excepted.
RECURSIVE Normalise(_, _)
Normalise(done, rest) ==
  IF rest = <<>> THEN done
  ELSE IF Head(rest) = ".."
    THEN Normalise(IF Len(done) > 1 THEN SubSeq(done, 1, Len(done) - 1) ELSE done,
                   Tail(rest))
  ELSE Normalise(Append(done, Head(rest)), Tail(rest))

Resolve(path) == Normalise(<<>>, path)

\* <project>/.git: missing, a directory, or a file. A file is readable or
\* not (read_text raises OSError or UnicodeDecodeError); its stripped content
\* starts with "gitdir: " or not; gitdir is the path after that prefix.
DotGit(kind, readable, prefixed, gitdir) ==
  [kind |-> kind, readable |-> readable, prefixed |-> prefixed, gitdir |-> gitdir]

NoDotGit == DotGit("none", FALSE, FALSE, <<>>)
DotGitDir == DotGit("dir", FALSE, FALSE, <<>>)

\* Mutant: a relative gitdir is not resolved against the project path.
HooksDirUnresolved(pp, g) ==
  IF g.kind = "file" /\ g.readable /\ g.prefixed
    THEN Resolve(g.gitdir) \o <<"hooks">>
  ELSE pp \o <<".git", "hooks">>

\* _get_hooks_dir, for the project at path pp whose .git is g.
_get_hooks_dir(pp, g) ==
  IF g.kind = "file" /\ g.readable /\ g.prefixed
    THEN Resolve(IF IsAbsolute(g.gitdir) THEN g.gitdir ELSE pp \o g.gitdir)
           \o <<"hooks">>
  ELSE pp \o <<".git", "hooks">>

\* _validate_hooks: hooks_dir = self._get_hooks_dir()
ValidateHooksDir ==
  /\ project_path # <<>>
  /\ validateDir = <<>>
  /\ validateDir' = _get_hooks_dir(project_path, dot_git)
  /\ UNCHANGED <<project_path, dot_git, fixDir, hookVars, setupVars, installVars,
                 cliVars, detectVars, preCommitVars>>

\* _fix_hooks: hooks_dir = self._get_hooks_dir(), then
\* hooks_dir.mkdir(parents=True, exist_ok=True), which creates .git where
\* there is none.
FixHooksDir ==
  /\ project_path # <<>>
  /\ fixDir = <<>>
  /\ fixDir' = _get_hooks_dir(project_path, dot_git)
  /\ dot_git' = IF dot_git.kind = "none" THEN DotGitDir ELSE dot_git
  /\ UNCHANGED <<project_path, validateDir, hookVars, setupVars, installVars,
                 cliVars, detectVars, preCommitVars>>

\* The project paths and the .git entries _get_hooks_dir is run on: a
\* repository, a nested repository whose .git file names its git directory
\* by an absolute or a relative path, and .git files it cannot use.
ProjectPaths ==
  {<<"/", "repo">>, <<"/", "repo", "p">>, <<"/", "repo", "plugins", "p">>,
   <<"/", "home", "dev", "market", "p">>}

GitDirs ==
  {<<"/", "repo", ".git", "modules", "p">>, <<"/", "srv", "git", "p.git">>,
   <<"..", ".git", "modules", "p">>, <<"..", "..", ".git", "modules", "p">>,
   <<"gitdir">>}

DotGits ==
  {NoDotGit, DotGitDir, DotGit("file", FALSE, FALSE, <<>>),
   DotGit("file", TRUE, FALSE, <<>>)}
  \cup {DotGit("file", TRUE, TRUE, g) : g \in GitDirs}

\* _get_hooks_dir has not been called.
HooksDirIdle ==
  /\ project_path = <<>>
  /\ dot_git = NoDotGit
  /\ validateDir = <<>>
  /\ fixDir = <<>>

\* ---------------------------------------------------------- PRE_COMMIT_HOOK
\* indicators: the entries of the git directory that mark an operation in
\* progress.
Indicators ==
  {"rebase-merge", "rebase-apply", "CHERRY_PICK_HEAD", "MERGE_HEAD", "BISECT_LOG"}

\* is_rebase_in_progress: q is the outcome of git rev-parse --git-dir, which
\* is not inside a try (TIMEOUT raises); a nonzero exit returns False.
is_rebase_in_progress(q, ind) ==
  IF q # OK THEN FALSE ELSE ind # {}

\* A file git diff --cached --name-only lists: its suffix, and what opening
\* and parsing it meets: "valid", "invalid" (json.JSONDecodeError),
\* "missing" (FileNotFoundError) or "unreadable" (another OSError).
StagedFile(suffix, state) == [suffix |-> suffix, state |-> state]

\* get_staged_files: the lines of the output, [] on a nonzero exit.
get_staged_files(q, fs) == IF q = OK THEN fs ELSE {}

\* validate_json_files(files)[0]: len(errors) == 0.
validate_json_files(fs) ==
  ~\E f \in fs : f.suffix = "json" /\ f.state \in {"invalid", "unreadable"}

\* lint_python_files: o is the outcome of ruff check on the .py files that
\* exist.
lint_python_files(fs, o) ==
  LET py_files == {f \in fs : f.suffix = "py" /\ f.state # "missing"}
  IN  IF py_files = {} THEN TRUE
      ELSE IF o \in {TIMEOUT, NOTFOUND} THEN TRUE
      ELSE o = OK

\* warnings = check_sensitive_data(diff), diff = "" when git diff timed out.
SensitiveWarnings(o, s) == o # TIMEOUT /\ s

\* "issues found (non-blocking)": failed is left as it is.
LintBlocks(failed, lint_ok) == failed

\* An exception leaves main: the interpreter exits with 1.
PreRaises ==
  /\ prePc' = "done"
  /\ preRaised' = TRUE
  /\ preExit' = 1

preInputs == <<indicators, git_dir_query, name_only, staged_files, ruff_run,
               diff_run, sensitive>>

\* main: if is_rebase_in_progress(): return 0
PreSkip ==
  /\ prePc = "start"
  /\ IF git_dir_query = TIMEOUT THEN PreRaises
     ELSE IF is_rebase_in_progress(git_dir_query, indicators)
       THEN /\ prePc' = "done"
            /\ preExit' = 0
            /\ UNCHANGED preRaised
     ELSE /\ prePc' = "json"
          /\ UNCHANGED <<preRaised, preExit>>
  /\ UNCHANGED <<preFailed, preChecks, preInputs, hookVars, setupVars,
                 installVars, cliVars, detectVars, hooksDirVars>>

\* staged_files = get_staged_files() (not inside a try), then the JSON check.
PreJson ==
  /\ prePc = "json"
  /\ IF name_only = TIMEOUT
       THEN /\ PreRaises
            /\ UNCHANGED <<preFailed, preChecks>>
     ELSE /\ preFailed' = ~validate_json_files(get_staged_files(name_only, staged_files))
          /\ preChecks' = preChecks \cup {"json"}
          /\ prePc' = "python"
          /\ UNCHANGED <<preRaised, preExit>>
  /\ UNCHANGED <<preInputs, hookVars, setupVars, installVars, cliVars,
                 detectVars, hooksDirVars>>

\* The Python lint.
PreLint ==
  /\ prePc = "python"
  /\ preFailed' =
       LintBlocks(preFailed,
                  lint_python_files(get_staged_files(name_only, staged_files), ruff_run))
  /\ preChecks' = preChecks \cup {"python"}
  /\ prePc' = "sensitive"
  /\ UNCHANGED <<preRaised, preExit, preInputs, hookVars, setupVars, installVars,
                 cliVars, detectVars, hooksDirVars>>

\* The sensitive-data check: warnings are printed, failed is not touched.
PreSensitive ==
  /\ prePc = "sensitive"
  /\ preChecks' = preChecks \cup
                    {IF SensitiveWarnings(diff_run, sensitive) THEN "warned"
                     ELSE "sensitive"}
  /\ prePc' = "exit"
  /\ UNCHANGED <<preFailed, preRaised, preExit, preInputs, hookVars, setupVars,
                 installVars, cliVars, detectVars, hooksDirVars>>

\* if failed: return 1; return 0
PreExits ==
  /\ prePc = "exit"
  /\ prePc' = "done"
  /\ preExit' = IF preFailed THEN 1 ELSE 0
  /\ UNCHANGED <<preFailed, preChecks, preRaised, preInputs, hookVars, setupVars,
                 installVars, cliVars, detectVars, hooksDirVars>>

\* The staged files of a commit: at most MaxStaged of these.
StagedKinds ==
  {StagedFile("json", st) : st \in {"valid", "invalid", "missing", "unreadable"}}
  \cup {StagedFile("py", st) : st \in {"valid", "missing"}}

\* The hook is not running.
PreCommitIdle ==
  /\ indicators = {}
  /\ git_dir_query = OK
  /\ name_only = OK
  /\ staged_files = {}
  /\ ruff_run = OK
  /\ diff_run = OK
  /\ sensitive = FALSE
  /\ prePc = "idle"
  /\ preFailed = FALSE
  /\ preChecks = {}
  /\ preRaised = FALSE
  /\ preExit = -1

\* The executables ensure_linter_installed(lang) looks for.
Relevant(lang, os) ==
  CASE lang = "python" -> {"ruff", "mypy", "uv", "pipx", "pip3", "pip"}
    [] lang = "javascript" -> {"eslint", "bun", "npm", "pnpm"}
    [] lang = "shell" ->
         {"shellcheck"} \cup {ShellcheckChain(os)[k] : k \in 1..Len(ShellcheckChain(os))}
    [] lang = "go" -> {"gofmt"}
    [] lang = "rust" -> {"cargo"}
    [] lang = "markdown" -> {"bun", "npx", "markdownlint", "npm"}
    [] lang = "json" -> {"bun", "npx", "prettier"}
    [] OTHER -> {"yamllint", "uv", "pipx", "pip3", "pip"}

Platforms == {"darwin", "linux", "windows", "freebsd"}

\* ensure_linter_installed is not running.
InstallIdle ==
  /\ language = "none"
  /\ os_type = "linux"
  /\ onPath = {}
  /\ package_json = FALSE
  /\ local_eslint = FALSE
  /\ ensurePc = "idle"
  /\ tool = "none"
  /\ stratPos = 0
  /\ invoked = <<>>
  /\ printed = {}
  /\ ensured = "pending"

Init ==
  /\ pc = "start"
  /\ validator \in BOOLEAN
  /\ languages \in {L \in SUBSET Categories : Cardinality(L) <= MaxLangs}
  /\ dirty \in BOOLEAN
  /\ staged \in BOOLEAN
  /\ iteration = 0
  /\ langPos = 0
  /\ all_passed = TRUE
  /\ files_changed = FALSE
  /\ reported = {}
  /\ skipped = FALSE
  /\ toolTrace = <<>>
  /\ pyChanged = FALSE
  /\ mypy = FALSE
  /\ commits = 0
  /\ lastCommit = 0
  /\ onlyTF = TRUE
  /\ validatorCalls = 0
  /\ issues = <<>>
  /\ validation = [manifest |-> "unread", entries |-> <<>>]
  /\ outcome = "none"
  /\ exitCode = -1
  /\ SetupIdle
  /\ InstallIdle
  /\ CliIdle
  /\ DetectIdle
  /\ HooksDirIdle
  /\ PreCommitIdle

Next ==
  \/ Start
  \/ LoopHead
  \/ LintNothing
  \/ PyFix
  \/ PyTypecheck
  \/ PyVerify
  \/ PyFormat
  \/ LintJavascript
  \/ LintShell
  \/ LintGo
  \/ LintRust
  \/ LintMarkdown
  \/ LintJson
  \/ LintYaml
  \/ CommitStep
  \/ BlockedStep
  \/ ValidateStep

Spec == Init /\ [][Next]_vars

\* The pre-push hook is not running.
HookIdle ==
  /\ pc = "start"
  /\ validator = FALSE
  /\ languages = {}
  /\ dirty = FALSE
  /\ staged = FALSE
  /\ iteration = 0
  /\ langPos = 0
  /\ all_passed = TRUE
  /\ files_changed = FALSE
  /\ reported = {}
  /\ skipped = FALSE
  /\ toolTrace = <<>>
  /\ pyChanged = FALSE
  /\ mypy = FALSE
  /\ commits = 0
  /\ lastCommit = 0
  /\ onlyTF = TRUE
  /\ validatorCalls = 0
  /\ issues = <<>>
  /\ validation = [manifest |-> "unread", entries |-> <<>>]
  /\ outcome = "none"
  /\ exitCode = -1

\* PipelineSetup(project_path, dry_run) on a project tree.
SetupInit ==
  /\ HookIdle
  /\ InstallIdle
  /\ CliIdle
  /\ DetectIdle
  /\ HooksDirIdle
  /\ PreCommitIdle
  /\ project \in Projects
  /\ dry_run \in BOOLEAN
  /\ status = FreshStatus
  /\ fixed = -1
  /\ callsMade = [validate |-> 0, fix |-> 0]
  /\ sinceReset = 0
  /\ applied = FALSE
  /\ ioFailed = FALSE
  /\ fault = "none"
  /\ escaped = FALSE

SetupNext ==
  \/ Validate
  \/ Fix
  \/ ResetStatus

SetupSpec == SetupInit /\ [][SetupNext]_vars

\* ensure_linter_installed(language, repo_root) is called once, for a
\* category detect_languages can return, in an environment with at most
\* MaxOnPath of the executables it looks for on PATH.
InstallInit ==
  /\ HookIdle
  /\ SetupIdle
  /\ CliIdle
  /\ DetectIdle
  /\ HooksDirIdle
  /\ PreCommitIdle
  /\ language \in Categories
  /\ os_type \in IF language \in {"shell", "go", "rust"} THEN Platforms ELSE {"linux"}
  /\ onPath \in {P \in SUBSET Relevant(language, os_type) : Cardinality(P) <= MaxOnPath}
  /\ package_json \in IF language = "javascript" THEN BOOLEAN ELSE {FALSE}
  /\ local_eslint \in IF language = "javascript" THEN BOOLEAN ELSE {FALSE}
  /\ ensurePc = "start"
  /\ tool = "none"
  /\ stratPos = 0
  /\ invoked = <<>>
  /\ printed = {}
  /\ ensured = "pending"

InstallNext ==
  \/ EnsureStart
  \/ TryStrategy
  \/ ChainEnd

InstallSpec == InstallInit /\ [][InstallNext]_vars

\* main is run once on a project tree with some flags.
MainInit ==
  /\ HookIdle
  /\ InstallIdle
  /\ DetectIdle
  /\ HooksDirIdle
  /\ PreCommitIdle
  /\ project \in Projects
  /\ args \in Flags
  /\ path_exists \in IF project \in UnknownProjects THEN BOOLEAN ELSE {TRUE}
  /\ dry_run = args.dry_run
  /\ status = FreshStatus
  /\ fixed = -1
  /\ callsMade = [validate |-> 0, fix |-> 0]
  /\ sinceReset = 0
  /\ applied = FALSE
  /\ ioFailed = FALSE
  /\ fault = "none"
  /\ escaped = FALSE
  /\ cliPc = "start"
  /\ cliExit = -1

MainNext ==
  \/ MainValidate
  \/ MainJson
  \/ MainNoFix
  \/ MainFix
  \/ MainExit
  \/ MainDefault

MainSpec == MainInit /\ [][MainNext]_vars

\* detect_languages is called once on a repository of at most MaxFiles files.
DetectInit ==
  /\ HookIdle
  /\ SetupIdle
  /\ InstallIdle
  /\ CliIdle
  /\ HooksDirIdle
  /\ PreCommitIdle
  /\ repo_root \in RootPaths
  /\ files \in UNION {{{g[i] : i \in 1..n} : g \in [1..n -> Trees]} : n \in 0..MaxFiles}
  /\ detected = [done |-> FALSE, languages |-> {}]

DetectNext == Detect

DetectSpec == DetectInit /\ [][DetectNext]_vars

\* validate() and fix() locate the hooks directory of one project, in either
\* order.
HooksDirInit ==
  /\ HookIdle
  /\ SetupIdle
  /\ InstallIdle
  /\ CliIdle
  /\ DetectIdle
  /\ PreCommitIdle
  /\ project_path \in ProjectPaths
  /\ dot_git \in DotGits
  /\ validateDir = <<>>
  /\ fixDir = <<>>

HooksDirNext ==
  \/ ValidateHooksDir
  \/ FixHooksDir

HooksDirSpec == HooksDirInit /\ [][HooksDirNext]_vars

\* git commit runs the installed pre-commit hook once.
PreCommitInit ==
  /\ HookIdle
  /\ SetupIdle
  /\ InstallIdle
  /\ CliIdle
  /\ DetectIdle
  /\ HooksDirIdle
  /\ indicators \in {{}} \cup {{i} : i \in Indicators}
  /\ git_dir_query \in Ran
  /\ name_only \in Ran
  /\ staged_files \in {F \in SUBSET StagedKinds : Cardinality(F) <= MaxStaged}
  /\ ruff_run \in RanOrNot
  /\ diff_run \in {OK, TIMEOUT}
  /\ sensitive \in BOOLEAN
  /\ prePc = "start"
  /\ preFailed = FALSE
  /\ preChecks = {}
  /\ preRaised = FALSE
  /\ preExit = -1

PreCommitNext ==
  \/ PreSkip
  \/ PreJson
  \/ PreLint
  \/ PreSensitive
  \/ PreExits

PreCommitSpec == PreCommitInit /\ [][PreCommitNext]_vars

\* ===================================================================== claims
Done == pc = "done"

FF == <<FALSE, FALSE>>
TF == <<TRUE, FALSE>>
TT == <<TRUE, TRUE>>

\* A variant of main: the iterations left, then the position inside one.
Measure ==
  LET n == Len(LangOrder)
      W == 4 * (n + 2)
      base == (MAX_FIX_ITERATIONS - iteration) * W
  IN  CASE pc = "done" -> 0
        [] pc = "start" -> MAX_FIX_ITERATIONS * W + 2
        [] pc = "loop_head" -> base + 1
        [] pc = "decide" -> base + 2
        [] pc = "lint" -> base + 4 * (n + 1 - langPos)
        [] pc = "py_typecheck" -> base + 4 * (n + 1) - 1
        [] pc = "py_verify" -> base + 4 * (n + 1) - 2
        [] pc = "py_format" -> base + 4 * (n + 1) - 3

\* C1: the loop terminates after at most MAX_FIX_ITERATIONS iterations whatever
\* the adapters return: every step of main strictly decreases a variant that
\* never goes below zero, and the iteration counter never exceeds the bound.
C1_Terminates ==
  [][/\ Measure' < Measure
     /\ Measure' >= 0
     /\ iteration' <= MAX_FIX_ITERATIONS]_vars

\* C1: a run in which every iteration reported changed files, ended by the bound.
C1_Witness ==
  Done /\ outcome = "Exhausted" /\ iteration = MAX_FIX_ITERATIONS /\ files_changed

\* C2 as stated: a run of the loop exits 0 only in an iteration where no
\* adapter reported changed files, every adapter reported success, and the
\* external validator was invoked and reported zero failing plugins.
C2_Original ==
  (exitCode = 0 /\ iteration >= 1) =>
    /\ outcome = "Success"
    /\ \A r \in reported : r[1] /\ ~r[2]
    /\ validatorCalls >= 1
    /\ issues = <<>>

\* C2 amended: main ends in exactly one outcome; it exits 0 only through
\* Success (or before the loop, when no validator script is found), and
\* Success is reached only in an iteration where run_linting returned
\* (True, False) -- every adapter that ran reported success and no change --
\* and run_validation_cycle returned no failing plugin, the validator having
\* been invoked any number of times, zero included; every other ending exits 1.
C2_ExitCodes ==
  /\ Done <=> outcome # "none"
  /\ Done <=> exitCode # -1
  /\ exitCode \in {-1, 0, 1}
  /\ exitCode = 0 <=> outcome \in {"Success", "NoValidator"}
  /\ outcome = "NoValidator" => ~validator /\ iteration = 0
  /\ outcome = "Success" =>
       /\ iteration >= 1
       /\ all_passed /\ ~files_changed
       /\ \A r \in reported : r[1] /\ ~r[2]
       /\ issues = <<>>
  /\ outcome \in {"BlockedUnfixableLint", "BlockedStructural", "Exhausted",
                  "CommitFailed", "Crashed"} => exitCode = 1

\* C2: Success although the validator was never invoked (no manifest, or no
\* declared plugin path exists), after an adapter ran.
C2_Witness ==
  outcome = "Success" /\ validatorCalls = 0 /\ reported # {}

C4_AllFailedUnchanged ==
  (Done /\ iteration >= 1 /\ reported = {FF} /\ ~skipped) =>
    /\ outcome = "BlockedUnfixableLint"
    /\ exitCode = 1
    /\ validatorCalls = 0
    /\ lastCommit = 0

\* C4: two categories, both reporting (False, False), and the run has ended.
C4_Witness ==
  /\ Done
  /\ Cardinality(languages) = 2
  /\ reported = {FF}
  /\ ~skipped
  /\ langPos = NextIdx(NextIdx(0))
  /\ outcome = "BlockedUnfixableLint"

C7_Original ==
  commits <= MAX_FIX_ITERATIONS - 1

\* C7 amended: one invocation creates at most MAX_FIX_ITERATIONS commits, at
\* most one per iteration; a run that ends as Success, BlockedUnfixableLint or
\* BlockedStructural created none in its last iteration, hence at most
\* MAX_FIX_ITERATIONS - 1.
C7_CommitBound ==
  /\ commits <= MAX_FIX_ITERATIONS
  /\ commits <= iteration
  /\ lastCommit \in {0, iteration}
  /\ outcome \in {"Success", "BlockedUnfixableLint", "BlockedStructural"} =>
       /\ commits <= iteration - 1
       /\ commits <= MAX_FIX_ITERATIONS - 1
       /\ lastCommit = 0

\* C7: the fifth round's commit exists before the loop's bound is tested.
C7_Witness ==
  /\ pc = "loop_head"
  /\ commits = MAX_FIX_ITERATIONS
  /\ lastCommit = MAX_FIX_ITERATIONS

\* C8 as stated: when ensure_linter_installed returned False for a category
\* and no category changed files, the run ends as BlockedUnfixableLint.
C8_Original ==
  (Done /\ iteration >= 1 /\ skipped /\ ~files_changed) =>
    outcome = "BlockedUnfixableLint"

\* The last entry of toolTrace is what the adapter returned.
HasReturned ==
  toolTrace # <<>> /\ toolTrace[Len(toolTrace)][1] = "return"

\* C9 as stated: ruff format runs only right after a verify that exited 0.
C9_Original ==
  \A i \in 1..Len(toolTrace) :
    toolTrace[i][1] = "format" => (i > 1 /\ toolTrace[i - 1] = <<"verify", OK>>)

FailCauses ==
  {<<"fix", NOTFOUND>>, <<"typecheck", FAIL>>, <<"verify", FAIL>>,
   <<"gofmt", NOTFOUND>>, <<"go vet", FAIL>>}

NoTypecheck ==
  \A i \in 1..Len(toolTrace) : toolTrace[i][1] # "typecheck"

\* C11: absence of mypy never makes the Python category fail: lint_python
\* is entered with mypy absent (ensure_linter_installed returned True), its
\* typecheck step is then skipped without a tool call and without touching
\* run_linting's verdict, and verify is the next step.
C11_MypyOptional ==
  [][(pc = "py_typecheck" /\ ~mypy) =>
       /\ pc' = "py_verify"
       /\ toolTrace' = toolTrace
       /\ NoTypecheck
       /\ UNCHANGED <<lintVars, pyChanged, dirty>>]_vars

\* C11: lint_python returned success=True after fix, verify and format, with
\* no mypy call.
C11_Witness ==
  /\ HasReturned
  /\ NoTypecheck
  /\ Len(toolTrace) = 4
  /\ toolTrace[1][1] = "fix"
  /\ toolTrace[2][1] = "verify"
  /\ toolTrace[3][1] = "format"
  /\ toolTrace[4] = Returned(TRUE)
  /\ TT \in reported \/ TF \in reported

\* C12 as stated: a run that a failed or timed-out git command of the commit
\* step ended has nothing staged in the index.
C12_Original ==
  (Done /\ files_changed /\ outcome \in {"CommitFailed", "Crashed"}) => ~staged

\* The validation step has run.
Validated == validation.manifest # "unread"

\* The positions of the entries e of the manifest with es[e] in S, in order.
Positions(S) ==
  LET es == validation.entries
      idx == [i \in 1..Len(es) |-> i]
  IN  SelectSeq(idx, LAMBDA i : es[i] \in S)

\* The names of the plugins whose validator invocation exited nonzero.
FailedNames ==
  LET sel == Positions({FAIL})
  IN  [j \in 1..Len(sel) |->
         IF validation.manifest = "plugin" THEN "plugin" ELSE ToString(sel[j])]

\* An invocation of the validator timed out.
ValidatorTimedOut == Positions({TIMEOUT}) # <<>>

\* C13 as stated: the validator is invoked exactly once per declared plugin,
\* and the run ends as BlockedStructural, listing the failing plugins,
\* exactly when some invocation exits nonzero.
C13_Original ==
  validation.manifest \in {"marketplace", "plugin"} =>
    /\ validatorCalls = Len(validation.entries)
    /\ outcome = "BlockedStructural" <=> Positions({FAIL}) # <<>>
    /\ outcome = "BlockedStructural" => issues = FailedNames

\* C13 amended: the validator is invoked once for each declared plugin whose
\* path exists, in manifest order, until an invocation times out, and once
\* for a standalone plugin; it is not invoked for a declared plugin whose path
\* is missing, nor when the manifest is absent or cannot be read. When no
\* invocation times out and the manifest is read, the run ends as
\* BlockedStructural exactly when some invocation exited nonzero, with the
\* list equal to the names of those plugins in manifest order, and as Success
\* otherwise; a timeout or an unreadable manifest ends the run with exit
\* code 1 and no verdict.
C13_Validation ==
  Validated =>
    /\ Done
    /\ validation.manifest \in {"none", "malformed"} => validatorCalls = 0
    /\ validation.manifest = "plugin" => validatorCalls = 1
    /\ (validation.manifest = "marketplace" /\ ~ValidatorTimedOut) =>
         validatorCalls = Len(Positions({OK, FAIL}))
    /\ (validation.manifest = "marketplace" /\ ValidatorTimedOut) =>
         validatorCalls =
           Cardinality({i \in 1..Positions({TIMEOUT})[1] :
                          validation.entries[i] # "missing"})
    /\ (ValidatorTimedOut \/ validation.manifest = "malformed") =>
         outcome = "Crashed" /\ exitCode = 1
    /\ (~ValidatorTimedOut /\ validation.manifest # "malformed") =>
         /\ issues = FailedNames
         /\ outcome = "BlockedStructural" <=> Positions({FAIL}) # <<>>
         /\ outcome = "Success" <=> Positions({FAIL}) = <<>>

\* C13: a marketplace with a missing plugin path and a failing plugin ended
\* as BlockedStructural after one invocation.
C13_Witness ==
  /\ outcome = "BlockedStructural"
  /\ validation.manifest = "marketplace"
  /\ Len(validation.entries) = 2
  /\ Positions({"missing"}) # <<>>
  /\ validatorCalls = 1
  /\ Len(issues) = 1

\* ------------------------------------------------------ PipelineSetup claims
\* The step is a validate() call, a fix() call.
Validates == callsMade'.validate = callsMade.validate + 1
Fixes == callsMade'.fix = callsMade.fix + 1

HookSet == {RequiredHooks[i] : i \in 1..Len(RequiredHooks)}

\* status holds a Major issue about hook h with the given text.
HookIssue(st, text, h) ==
  \E i \in 1..Len(st.issues) :
    /\ st.issues[i].level = MAJOR
    /\ st.issues[i].component = "hooks"
    /\ st.issues[i].message = <<text, h>>

\* C14: for every PipelineStatus reachable through validate() and fix(),
\* is_valid is true if and only if every issue of the list is of severity
\* Minor or Info, i.e. none is Critical or Major.
C14_IsValid ==
  /\ \A i \in 1..Len(status.issues) :
       status.issues[i].level \in {CRITICAL, MAJOR, MINOR, INFO}
  /\ is_valid(status) <=>
       \A i \in 1..Len(status.issues) : status.issues[i].level \in {MINOR, INFO}

\* C14: a status with Minor issues only, after validate() and fix(), is valid.
C14_Witness ==
  /\ callsMade.fix >= 1
  /\ sinceReset = 1
  /\ Len(status.issues) >= 2
  /\ \A i \in 1..Len(status.issues) : status.issues[i].level = MINOR
  /\ is_valid(status)

\* C15 as stated: on a validated project, a fix() call after a fix() that
\* was not a dry run and changed the tree applies no change and returns 0.
C15_Original ==
  [][(Fixes /\ applied /\ status.project_type # UNKNOWN) =>
       (fixed' = 0 /\ project' = project)]_vars

\* C16 as stated: validate() classifies an existing hook file below the size
\* floor as not installed and reports a hook issue for it.
C16_Original ==
  [][(Validates /\ status'.project_type # UNKNOWN) =>
       \A h \in HookSet :
         (project.hooks[h].exists /\ project.hooks[h].size < HookSizeFloor) =>
           /\ ~status'.hooks_installed[h]
           /\ \E i \in (Len(status.issues) + 1)..Len(status'.issues) :
                /\ status'.issues[i].component = "hooks"
                /\ Len(status'.issues[i].message) = 2
                /\ status'.issues[i].message[2] = h]_vars

\* C17: for a standalone or nested plugin, a validate() on a fresh status
\* that follows a fix() which was not a dry run and met no OSError ends with
\* is_valid = true, whatever hooks and config files the project started with.
C17_FixedIsValid ==
  [][(/\ Validates
      /\ sinceReset = 0
      /\ status.issues = <<>>
      /\ applied
      /\ ~ioFailed
      /\ project.manifest = "plugin") =>
       /\ is_valid(status')
       /\ \A h \in HookSet : status'.hooks_installed[h]
       /\ major_count(status') = 0]_vars

\* C17: validate(), fix(), fresh validate() on a plugin that started with a
\* post-commit hook, four hooks and three config files to fix.
C17_Witness ==
  /\ project.manifest = "plugin"
  /\ applied /\ ~ioFailed
  /\ callsMade = [validate |-> 2, fix |-> 1]
  /\ sinceReset = 1
  /\ fixed = 8
  /\ is_valid(status)

\* The tree is a standalone plugin repository with none of the required hooks.
BareHooksDir ==
  /\ project.manifest = "plugin"
  /\ project.git = "dir"
  /\ \A h \in HookSet : ~project.hooks[h].exists

\* C18 as stated: validate() of a standalone plugin repository with none of
\* the four required hooks yields exactly 4 Major issues and is_valid false.
C18_Original ==
  [][(Validates /\ status = FreshStatus /\ BareHooksDir) =>
       (major_count(status') = 4 /\ ~is_valid(status'))]_vars

\* C18 amended: validate() of a standalone plugin repository with none of the
\* four required hooks yields one Major issue per missing hook, plus one
\* Major issue when a legacy post-commit hook exists: exactly 4 without it,
\* 5 with it; no Critical issue; is_valid is false.
C18_MissingHooks ==
  [][(Validates /\ sinceReset = 0 /\ status.issues = <<>> /\ BareHooksDir) =>
       /\ \A h \in HookSet : HookIssue(status', "Missing hook", h)
       /\ major_count(status') = 4 + (IF project.post_commit THEN 1 ELSE 0)
       /\ \A i \in 1..Len(status'.issues) : status'.issues[i].level # CRITICAL
       /\ \A h \in HookSet : ~status'.hooks_installed[h]
       /\ ~is_valid(status')]_vars

\* C18: four Major issues for four missing hooks, no post-commit hook.
C18_Witness ==
  /\ BareHooksDir /\ ~project.post_commit
  /\ callsMade = [validate |-> 1, fix |-> 0]
  /\ major_count(status) = 4
  /\ ~is_valid(status)

\* fix() runs, not as a dry run and with no OSError, on a validated
\* standalone plugin with no hook at all.
FixesBarePlugin ==
  /\ Fixes
  /\ status.project_type = PLUGIN
  /\ \A h \in HookSet : ~project.hooks[h].exists
  /\ ~project.post_commit
  /\ ~dry_run
  /\ fault' = "none"

\* C19 as stated: that fix() creates the 4 hooks as executables and returns 4.
C19_Original ==
  [][FixesBarePlugin =>
       /\ \A h \in HookSet : project'.hooks[h].exists /\ project'.hooks[h].exec
       /\ fixed' = 4]_vars

\* The config items _fix_config_files creates or updates in the tree.
ConfigItemsToFix ==
  (IF ~project.cliff THEN 1 ELSE 0)
  + (IF ~project.gitignore.exists
        \/ \E m \in {"__pycache__", ".mypy_cache", "docs_dev/"} :
             m \notin project.gitignore.markers
       THEN 1 ELSE 0)
  + (IF project.validate_yml = "missing" THEN 1 ELSE 0)

\* C19 amended: for a standalone plugin with no existing hooks, a fix() that
\* is not a dry run and meets no OSError creates the 4 required hooks as
\* executables of at least the size floor and returns 4 plus the number of
\* config items it creates or updates (cliff.toml, .gitignore,
\* validate.yml): between 4 and 7.
C19_FixCount ==
  [][FixesBarePlugin =>
       /\ \A h \in HookSet :
            /\ project'.hooks[h].exists
            /\ project'.hooks[h].exec
            /\ project'.hooks[h].size >= HookSizeFloor
       /\ fixed' = 4 + ConfigItemsToFix
       /\ fixed' \in 4..7]_vars

\* C19: fix() installed the four hooks and the three config files.
C19_Witness ==
  /\ status.project_type = PLUGIN
  /\ ~dry_run /\ ~ioFailed
  /\ callsMade.fix = 1
  /\ fixed = 7
  /\ \A h \in HookSet : project.hooks[h] = InstalledHook
  /\ project.gitignore = Gitignore(GITIGNORE_ADDITIONS, 1)

\* C20 as stated: for a nested plugin for which validate() reported the
\* post-commit issue and nothing else, fix() removes the file and returns 1.
C20_Original ==
  [][(/\ Fixes
      /\ ~dry_run
      /\ status.project_type = PLUGIN_IN_MARKETPLACE
      /\ sinceReset = 1
      /\ Len(status.issues) = 1
      /\ status.issues[1].level = MAJOR
      /\ status.issues[1].message = <<"post-commit hook exists">>
      /\ project.post_commit) =>
       (~project'.post_commit /\ fixed' = 1)]_vars

\* C21 as stated: an OSError of any file operation of fix() is recorded as a
\* Critical issue and fix() still returns.
C21_Original ==
  [][(Fixes /\ fault' # "none") =>
       /\ ~escaped'
       /\ Len(status'.issues) > Len(status.issues)
       /\ status'.issues[Len(status'.issues)].level = CRITICAL]_vars

\* The number of files that differ between two trees.
Changed(p, q) ==
  (IF p.post_commit # q.post_commit THEN 1 ELSE 0)
  + Cardinality({h \in HookSet : p.hooks[h] # q.hooks[h]})
  + (IF p.cliff # q.cliff THEN 1 ELSE 0)
  + (IF p.gitignore # q.gitignore THEN 1 ELSE 0)
  + (IF p.validate_yml # q.validate_yml THEN 1 ELSE 0)
  + Cardinality({i \in 1..Len(p.submodules) :
                   p.submodules[i].post_commit # q.submodules[i].post_commit})
  + Cardinality({i \in 1..Len(p.submodules) :
                   p.submodules[i].rewrite # q.submodules[i].rewrite})
  + Cardinality({i \in 1..Len(p.submodules) :
                   p.submodules[i].merge # q.submodules[i].merge})

\* C22 as stated: what fix() returns is the number of changes that call
\* applied to the tree, 0 when it changed nothing.
C22_Original ==
  [][(Fixes /\ ~escaped') => fixed' = Changed(project, project')]_vars

\* C23 as stated: validate() returns what it returns on a freshly
\* constructed PipelineStatus, whatever calls were made before.
C23_Original ==
  [][Validates => status'.issues = validate(project, FreshStatus).issues]_vars

\* C25: for a project with neither manifest, validate() appends one Critical
\* issue whose fix_available is false and leaves the status invalid, and
\* fix() returns without changing the tree.
C25_UnknownNeverFixed ==
  [][project.manifest = "none" =>
       /\ Validates =>
            /\ status'.project_type = UNKNOWN
            /\ Len(status'.issues) = Len(status.issues) + 1
            /\ LET i == status'.issues[Len(status'.issues)]
               IN  i.level = CRITICAL /\ i.component = "project" /\ ~i.fix_available
            /\ ~is_valid(status')
       /\ Fixes => (project' = project /\ ~escaped')]_vars

\* C25: validate() then fix() were called on a project with neither manifest.
C25_Witness ==
  /\ project.manifest = "none"
  /\ callsMade = [validate |-> 1, fix |-> 1]
  /\ ~dry_run
  /\ Len(status.issues) = 1
  /\ ~is_valid(status)
  /\ NeedsInstall(project) # {}

\* C26 as stated: validate() of a marketplace reports a submodule's missing
\* post-rewrite or post-merge hook with the severity it has in the primary
\* repository, Major.
C26_Original ==
  [][(Validates /\ project.manifest = "marketplace") =>
       \A k \in 1..Len(project.submodules) :
         (project.submodules[k].dir /\ ~project.submodules[k].rewrite) =>
           \E i \in (Len(status.issues) + 1)..Len(status'.issues) :
             /\ status'.issues[i].component = "submodules"
             /\ status'.issues[i].level = MAJOR
             /\ status'.issues[i].message = <<"missing hook", ToString(k), "post-rewrite">>]_vars

\* ------------------------------------------------------------- main claims
\* C24 as stated: main, run on an existing path and not ended by an
\* exception, returns 0 exactly when the status of its last validate() is
\* valid.
C24_Original ==
  (cliPc = "exited" /\ path_exists /\ ~escaped) =>
    (cliExit = 0 <=> is_valid(status))

\* --------------------------------------------- ensure_linter_installed claims
\* The strategies invoked for tool t, in the order of their invocation.
Tried(t) ==
  LET own == SelectSeq(invoked, LAMBDA x : x.tool = t)
  IN  [k \in 1..Len(own) |-> own[k].strategy]

\* The strategies of tool t's chain that are on PATH, in chain order.
Present(t) == SelectSeq(Chain(t, os_type), LAMBDA m : m \in onPath)

Tools == {"ruff", "mypy", "yamllint", "eslint", "shellcheck", "markdownlint"}

\* The strategies invoked for each tool are the first ones of its chain that
\* are on PATH, in chain order, each once.
InChainOrder ==
  \A t \in Tools :
    /\ Len(Tried(t)) <= Len(Present(t))
    /\ \A k \in 1..Len(Tried(t)) : Tried(t)[k] = Present(t)[k]

\* The last invocation for the tool of the i-th invocation.
IsLastOfTool(i) ==
  \A j \in (i + 1)..Len(invoked) : invoked[j].tool # invoked[i].tool

\* With `good` the invocations that end a chain: none is followed by another
\* strategy of the same tool, and a finished call whose required tool went
\* through a chain returned true exactly when the chain's last invocation
\* was a good one.
EndsAtFirst(good(_)) ==
  /\ \A i \in 1..Len(invoked) : good(invoked[i]) => IsLastOfTool(i)
  /\ ensurePc = "done" =>
       \A i \in 1..Len(invoked) :
         (IsLastOfTool(i) /\ invoked[i].tool # "mypy") =>
           (ensured = "true" <=> good(invoked[i]))

C28_Original ==
  \A i \in 1..Len(invoked) :
    invoked[i].outcome = TIMEOUT =>
      /\ ensured # "raised"
      /\ (ensurePc = "done" /\ IsLastOfTool(i)) =>
           Len(Tried(invoked[i].tool)) = Len(Present(invoked[i].tool))

\* The printed messages that hold a command to install the tool.
InstallCommands ==
  {"brew install shellcheck",
   "apt install shellcheck  # or dnf/pacman/zypper",
   "scoop install shellcheck  # or choco/winget",
   "brew install go  # or download from go.dev/dl",
   "apt install golang  # or dnf/pacman, or download from go.dev/dl",
   "scoop install go  # or choco install golang, or download from go.dev/dl",
   "curl --proto '=https' --tlsv1.2 -sSf https://sh.rustup.rs | sh",
   "npm install -g markdownlint-cli",
   "Install via: uv tool install --python 3.12 yamllint  OR  pipx install yamllint"}

\* C29 as stated: a call that returned false has printed a command to
\* install the tool.
C29_Original ==
  ensured = "false" => printed \cap InstallCommands # {}

\* ------------------------------------------------- detect_languages claims
\* C30 as stated: a category is returned exactly when some file with one of
\* its suffixes has no excluded directory among the parts of its path below
\* the repository root.
C30_Original ==
  detected.done =>
    \A c \in Categories :
      c \in detected.languages <=>
        \E f \in files :
          /\ f.ext \in Extensions(c)
          /\ \A i \in 1..Len(f.dirs) : f.dirs[i] \notin exclude_dirs

\* C31 as stated: a marketplace.json that cannot be parsed is treated as
\* absent by the validation step: the run does not crash.
C31_Original ==
  (Done /\ validation.manifest = "malformed") => outcome # "Crashed"

\* C34: a step that creates a commit is the commit step of the current
\* iteration, taken because files_changed is true; it creates exactly one
\* commit and is the only such step of the iteration; the index was not empty
\* once git add -u (tracked files only) had run: something was staged before,
\* or a tracked modification was staged by the step; the commit command
\* carries --no-verify and its message names the current iteration.
C34_CommitStep ==
  [][commits' # commits =>
       /\ commits' = commits + 1
       /\ pc = "decide" /\ pc' \in {"loop_head", "done"}
       /\ files_changed
       /\ iteration' = iteration
       /\ lastCommit = 0
       /\ staged \/ (dirty /\ ~dirty')
       /\ ~staged'
       /\ lastCommit' = iteration
       /\ StageCommand = <<"git", "add", "-u">>
       /\ CommitCommand(lastCommit')[4] = CommitMessage(iteration)
       /\ CommitCommand(lastCommit')[5] = "--no-verify"]_vars

\* C34: the second iteration's commit step has created the second commit.
C34_Witness ==
  /\ pc = "loop_head"
  /\ iteration = 2
  /\ commits = 2
  /\ lastCommit = 2
  /\ ~staged

\* C35 as stated: when an iteration after the first is about to start, the
\* repository status query would return false.
C35_Original ==
  (pc = "loop_head" /\ iteration >= 1 /\ LoopCondition(iteration)) =>
    ~has_uncommitted_changes(dirty, staged, OK)

C40_JsonReturns ==
  /\ [](args.json =>
          /\ cliPc \in {"start", "validated", "exited"}
          /\ fixed = -1 /\ fault = "none" /\ ~escaped
          /\ (cliPc = "exited" /\ path_exists) =>
               /\ status = validate(project, FreshStatus)
               /\ cliExit = ExitFor(status)
               /\ cliExit = 0 <=> is_valid(status))
  /\ [][args.json => project' = project]_vars

\* C40: main has returned 1 with --json and --fix on a project whose status
\* holds issues fix() would have repaired.
C40_Witness ==
  /\ args.json /\ args.fix /\ ~args.dry_run
  /\ cliPc = "exited"
  /\ cliExit = 1
  /\ fixable_issues(status) # <<>>

\* C32 as stated: with --dry-run no step of main changes the project's files
\* or directories.
C32_Original ==
  [][args.dry_run => project' = project]_vars

\* C36: a step changes a required hook file only if the file was missing,
\* not executable or smaller than HookSizeFloor, and then leaves the
\* template; a hook that exists, is executable and has at least HookSizeFloor
\* bytes keeps its content; no file or directory other than a post-commit
\* hook (the repository's or a submodule's) goes away.
C36_FixTouches ==
  [][/\ \A h \in DOMAIN project.hooks :
          LET f == project.hooks[h] IN
          /\ project'.hooks[h] # f =>
               /\ ~f.exists \/ ~f.exec \/ f.size < HookSizeFloor
               /\ project'.hooks[h] = InstalledHook
               /\ ~dry_run
          /\ (f.exists /\ f.exec /\ f.size >= HookSizeFloor) => project'.hooks[h] = f
     /\ project'.manifest = project.manifest
     /\ project.git # "none" => project'.git = project.git
     /\ project.cliff => project'.cliff
     /\ project.gitignore.exists =>
          /\ project'.gitignore.exists
          /\ project.gitignore.markers \subseteq project'.gitignore.markers
     /\ project.validate_yml # "missing" => project'.validate_yml = project.validate_yml
     /\ project'.other_workflow = project.other_workflow
     /\ DOMAIN project'.submodules = DOMAIN project.submodules
     /\ \A i \in DOMAIN project.submodules :
          /\ project'.submodules[i].dir = project.submodules[i].dir
          /\ project.submodules[i].rewrite => project'.submodules[i].rewrite
          /\ project.submodules[i].merge => project'.submodules[i].merge]_vars

\* C36: fix() has run: a valid hook that is not the template is still there
\* next to a hook fix() installed.
C36_Witness ==
  /\ applied
  /\ ~project.post_commit
  /\ \E h, k \in HookSet :
       /\ project.hooks[h] = HookFile(TRUE, HookSizeFloor)
       /\ project.hooks[k] = InstalledHook

\* ---------------------------------------------------- _get_hooks_dir claims
\* The .git file names a git directory.
Redirected == dot_git.kind = "file" /\ dot_git.readable /\ dot_git.prefixed

\* C37: validate() and fix() locate the same hooks directory; with a .git
\* file that names a git directory it is <gitdir>/hooks, a relative gitdir
\* being taken from the project path and resolved; with a .git directory, or
\* a .git file that cannot be read or does not start with "gitdir: ", it is
\* <project>/.git/hooks.
C37_SameHooksDir ==
  /\ (validateDir # <<>> /\ fixDir # <<>>) => validateDir = fixDir
  /\ \A d \in {validateDir, fixDir} \ {<<>>} :
       /\ d[Len(d)] = "hooks"
       /\ d[1] = "/"
       /\ \A i \in 1..Len(d) : d[i] # ".."
       /\ (Redirected /\ dot_git.gitdir[1] = "/") =>
            d = Resolve(dot_git.gitdir) \o <<"hooks">>
       /\ (Redirected /\ dot_git.gitdir[1] # "/") =>
            d = Resolve(project_path \o dot_git.gitdir) \o <<"hooks">>
       /\ ~Redirected => d = project_path \o <<".git", "hooks">>

\* C37: both calls have located the hooks directory of a nested repository
\* through the relative gitdir of its .git file.
C37_Witness ==
  /\ project_path = <<"/", "repo", "plugins", "p">>
  /\ dot_git = DotGit("file", TRUE, TRUE, <<"..", "..", ".git", "modules", "p">>)
  /\ validateDir = <<"/", "repo", ".git", "modules", "p", "hooks">>
  /\ fixDir = validateDir

\* ------------------------------------------------------ pre-commit hook claims
\* An operation is in progress.
InProgress == indicators # {}

\* Some staged .json file fails to parse or cannot be read.
BadJson ==
  \E f \in staged_files : f.suffix = "json" /\ f.state \in {"invalid", "unreadable"}

\* C38 as stated: the hook exits 0 without running a check when an operation
\* is in progress; otherwise it exits nonzero exactly when some staged .json
\* file fails to parse or cannot be read.
C38_Original ==
  prePc = "done" =>
    /\ InProgress => (preExit = 0 /\ preChecks = {})
    /\ ~InProgress => (preExit # 0 <=> BadJson)

\* C38, what the hook does: when git rev-parse --git-dir succeeds and an
\* operation is in progress, it exits 0 without running a check. A timeout
\* of git rev-parse, or of git diff --cached --name-only once the checks run,
\* leaves the hook as an uncaught exception: exit status 1. Otherwise the JSON and
\* the Python checks run and the hook exits with 1 exactly when the staged
\* files could be listed and some listed .json file fails to parse or cannot
\* be read, and with 0 in every other case: lint findings, a linter that
\* timed out or is missing, sensitive-data warnings and a staged file that no
\* longer exists do not change the exit status.
C38_PreCommit ==
  LET skips == git_dir_query = OK /\ InProgress
      runs == ~skips /\ git_dir_query # TIMEOUT
  IN  prePc = "done" =>
        /\ skips => (preExit = 0 /\ preChecks = {} /\ ~preRaised)
        /\ git_dir_query = TIMEOUT => (preRaised /\ preExit = 1 /\ preChecks = {})
        /\ (runs /\ name_only = TIMEOUT) => (preRaised /\ preExit = 1)
        /\ (runs /\ name_only # TIMEOUT) =>
             /\ ~preRaised
             /\ {"json", "python"} \subseteq preChecks
             /\ preExit \in {0, 1}
             /\ preExit = 1 <=> (name_only = OK /\ BadJson)

\* C38, a run the property above covers: the hook has exited 0 although ruff
\* reported findings on a staged Python file, the staged diff drew a
\* sensitive-data warning and a staged .json file no longer exists.
C38_Witness ==
  /\ prePc = "done"
  /\ preExit = 0
  /\ ~InProgress
  /\ name_only = OK
  /\ staged_files = {StagedFile("py", "valid"), StagedFile("json", "missing")}
  /\ ruff_run = FAIL
  /\ "warned" \in preChecks

\* C33 as stated: once validate() has run, the project type of the status is
\* the one --type names.
C33_Original ==
  (cliPc \in {"validated", "checked", "exited"} /\ path_exists /\ args.type # "auto") =>
    status.project_type = (IF args.type = "marketplace" THEN MARKETPLACE ELSE PLUGIN)

====
